---- MODULE Spec2Model ----
(***************************************************************************)
(* A model of the TagMark runtime (src/src/tagmark.js) on top of the       *)
(* ActDown reactive engine (src/lib/ActDown.js, src/lib/deep_proxy.js).    *)
(*                                                                         *)
(* The runtime is modelled as an interpreter: the JavaScript objects are   *)
(* TLA+ values, every function of the runtime is an operator from the      *)
(* application state (a record `app`) to the application state, and every *)
(* event-loop task (an event handler, the refresh microtask) is an action. *)
(***************************************************************************)
EXTENDS Integers, Sequences, FiniteSets, TLC

(***************************************************************************)
(* JavaScript values.  Every value is a record tagged by its type.         *)
(***************************************************************************)
Undef == [t |-> "undef"]
Null == [t |-> "null"]
Bool(b) == [t |-> "bool", v |-> b]
Num(n) == [t |-> "num", v |-> n]
Str(s) == [t |-> "str", v |-> s]
\* a plain object: a function from its own enumerable keys to values
Obj(f) == [t |-> "obj", v |-> f, fz |-> FALSE]
\* an array: the sequence of its elements
Arr(s) == [t |-> "arr", v |-> s, fz |-> FALSE]
EmptyObj == Obj(<<>>)

\* `x == null` in JavaScript
isNullish(x) == x.t \in {"undef", "null"}
\* `x && typeof x === 'object'`
isObject(x) == x.t \in {"obj", "arr"}
\* `!!x`
truthy(x) ==
  CASE x.t \in {"undef", "null"} -> FALSE
    [] x.t = "bool" -> x.v
    [] x.t = "num" -> x.v # 0
    [] x.t = "str" -> x.v # ""
    [] OTHER -> TRUE

\* The element of a singleton set.  only({e : x \in {v}}) is e with x standing
\* for v: the result of a call that is used more than once is named this way.
only(S) == CHOOSE x \in S : TRUE

\* array indices as property names
IdxName(i) == ToString(i)
\* the array methods that change the array in place (deep_proxy.js names them)
MutatingMethods == {"push"}

\* `base[prop]` for a value that is not null or undefined
getProp(base, prop) ==
  CASE base.t = "obj" -> IF prop \in DOMAIN base.v THEN base.v[prop] ELSE Undef
    [] base.t = "arr" ->
         IF \E i \in 1..Len(base.v) : IdxName(i - 1) = prop
         THEN base.v[CHOOSE i \in 1..Len(base.v) : IdxName(i - 1) = prop]
         ELSE IF prop = "length" THEN Num(Len(base.v))
         ELSE IF prop \in MutatingMethods THEN [t |-> "method", name |-> prop]
         ELSE Undef
    [] OTHER -> Undef

\* `obj[prop] = value`: an own key set or replaced; on an array, an element
\* replaced or the next one appended (other array properties are not modelled)
setProp(obj, prop, value) ==
  IF obj.t = "arr"
  THEN IF prop = IdxName(Len(obj.v)) THEN [obj EXCEPT !.v = Append(@, value)]
       ELSE [obj EXCEPT !.v = [i \in 1..Len(obj.v) |->
                                 IF IdxName(i - 1) = prop THEN value ELSE obj.v[i]]]
  ELSE [obj EXCEPT !.v = [k \in DOMAIN obj.v \cup {prop} |->
                            IF k = prop THEN value ELSE obj.v[k]]]

\* freezeDeep(val): Object.freeze on the value and on everything in it.  The
\* field fz of an object or array says that it is frozen.
RECURSIVE freezeDeep(_)
freezeDeep(val) ==
  IF ~isObject(val) THEN val
  ELSE [val EXCEPT !.fz = TRUE, !.v = [k \in DOMAIN val.v |-> freezeDeep(val.v[k])]]

\* Object.assign(target, source) for plain objects
objectAssign(target, source) ==
  Obj([k \in DOMAIN target.v \cup DOMAIN source.v |->
         IF k \in DOMAIN source.v THEN source.v[k] ELSE target.v[k]])

(***************************************************************************)
(* Handles: a root name and a path (class Handle).                         *)
(***************************************************************************)
Handle(root, path) == [root |-> root, path |-> path]
extend(h, seg) == Handle(h.root, Append(h.path, seg))

\* The namespaces are reactive proxies made by ActDown.state(), which keeps
\* them by name in act.proxies: each has an identity (the number of the
\* allocation that made it) and its data.  namespaces.global, namespaces.url
\* and the map namespaces.locals (by SID) refer to them by that name.
resolveNamespace(app, root) ==
  CASE root = "global" -> app.act.proxies[app.namespaces.global].data
    [] root = "url" -> app.act.proxies[app.namespaces.url].data
    [] OTHER -> IF root \in DOMAIN app.namespaces.locals
                THEN app.act.proxies[app.namespaces.locals[root]].data
                ELSE Undef

\* a path without its last segment, and the last segment
Front(seq) == SubSeq(seq, 1, Len(seq) - 1)
Last(seq) == seq[Len(seq)]

RECURSIVE readPath(_, _)
readPath(cur, path) ==
  IF path = <<>> THEN cur
  ELSE IF isNullish(cur) THEN Undef
  ELSE readPath(getProp(cur, Head(path)), Tail(path))

readHandle(app, handle) ==
  only({IF isNullish(base) THEN Undef ELSE readPath(base, handle.path) :
        base \in {resolveNamespace(app, handle.root)}})

\* The loop of writeHandle on `cur`: [ok, v, n] where v is `cur` after the
\* write, ok is FALSE when an assignment throws (strict mode: a property of a
\* primitive or of a frozen object cannot be set) and n is the number of
\* assignments that went through a reactive proxy, each of which notifies.
\* `wrapped` says that `cur` was read through the reactive proxy: the proxy
\* hands out the properties of a frozen object unwrapped.
RECURSIVE writePath(_, _, _, _)
writePath(cur, wrapped, path, value) ==
  LET seg == Head(path)
      denied == [ok |-> FALSE, v |-> cur, n |-> IF wrapped THEN 1 ELSE 0]
  IN IF ~isObject(cur) THEN [ok |-> FALSE, v |-> cur, n |-> 0]
     ELSE IF Len(path) = 1
     THEN IF cur.fz THEN denied
          ELSE [ok |-> TRUE, v |-> setProp(cur, seg, value), n |-> 1]
     ELSE only({
       IF isNullish(old)
       THEN IF cur.fz THEN denied
            ELSE LET r == writePath(EmptyObj, TRUE, Tail(path), value)
                 IN [ok |-> r.ok, v |-> setProp(cur, seg, r.v), n |-> 1 + r.n]
       ELSE LET r == writePath(old, ~cur.fz, Tail(path), value)
            IN IF r.ok THEN [ok |-> TRUE, v |-> setProp(cur, seg, r.v), n |-> r.n]
               ELSE [ok |-> FALSE, v |-> cur, n |-> r.n] :
       old \in {getProp(cur, seg)}})

\* `cur` with the value at `path` replaced by `value` (no assignment of the
\* program: the bookkeeping of a change made to an object in place)
RECURSIVE putPath(_, _, _)
putPath(cur, path, value) ==
  IF path = <<>> THEN value
  ELSE setProp(cur, Head(path), putPath(getProp(cur, Head(path)), Tail(path), value))

\* the application with the data of the namespace of `root` replaced
withNamespace(app, root, data) ==
  LET ns == CASE root = "global" -> app.namespaces.global
              [] root = "url" -> app.namespaces.url
              [] OTHER -> app.namespaces.locals[root]
  IN [app EXCEPT !.act.proxies[ns].data = data]

(***************************************************************************)
(* Structural identifiers.                                                 *)
(***************************************************************************)
\* JSON.stringify of a marker value (primitives; `undefined` has no JSON text
\* and the template literal prints it as the word undefined)
jsonStringify(val) ==
  CASE val.t = "num" -> ToString(val.v)
    [] val.t = "str" -> "\"" \o val.v \o "\""
    [] val.t = "bool" -> IF val.v THEN "true" ELSE "false"
    [] val.t = "null" -> "null"
    [] OTHER -> "undefined"

\* stableStringify, on the primitive markers the model uses
stableStringify(val) ==
  CASE val.t = "null" -> "null"
    [] val.t = "undef" -> "undefined"
    [] OTHER -> jsonStringify(val)

\* makeSid(parentSid, segment, iteration); NoIter stands for a call with two
\* arguments (the parameter is then undefined)
NoIter == Undef
makeSid(parentSid, segment, iteration) ==
  LET iter == IF isNullish(iteration) THEN "" ELSE "::" \o jsonStringify(iteration)
  IN parentSid \o "/" \o segment \o iter

(***************************************************************************)
(* Names.  `$`-values and handle aliases are compared case-insensitively;  *)
(* String.prototype.toUpperCase is tabulated on the names the model uses   *)
(* (a name outside the table has no lower-case letter).                    *)
(***************************************************************************)
toUpperCase(s) ==
  CASE s = "Global" -> "GLOBAL" [] s = "Url" -> "URL" [] s = "Form" -> "FORM"
    [] s = "App" -> "APP" [] s \in {"Local", "local"} -> "LOCAL"
    [] s = "Row" -> "ROW" [] s = "Card" -> "CARD" [] s = "Obj" -> "OBJ"
    [] s = "$u" -> "$U" [] s = "$x" -> "$X" [] s = "$event" -> "$EVENT"
    [] s = "_keyCache" -> "_KEYCACHE" [] s = "Plain" -> "PLAIN"
    [] s = "l" -> "L"
    [] OTHER -> s

\* the upper-case handle names in the order Array.prototype.sort gives them
SortedUpper ==
  <<"APP", "CARD", "D", "FORM", "GLOBAL", "L", "LOCAL", "OBJ", "PLAIN", "ROW",
    "URL">>

\* names.map(n => n.toUpperCase()).sort()
RECURSIVE sortedUpper(_, _)
sortedUpper(names, i) ==
  IF i > Len(SortedUpper) THEN <<>>
  ELSE [k \in 1..Cardinality({n \in names : toUpperCase(n) = SortedUpper[i]}) |->
          SortedUpper[i]] \o sortedUpper(names, i + 1)

\* Array.prototype.join(',')
RECURSIVE joinComma(_)
joinComma(seq) ==
  IF seq = <<>> THEN ""
  ELSE IF Len(seq) = 1 THEN seq[1]
  ELSE seq[1] \o "," \o joinComma(Tail(seq))

(***************************************************************************)
(* Scopes (class Scope).  Scope objects are shared by reference (a child   *)
(* keeps its parent), so they live in a heap, app.scopes, and are named by *)
(* their index; 0 is the null parent.  _flatCache is the field `flat`; the *)
(* property _keyCache that handlesKey stores on a flattened handles object *)
(* is the field keyCache of the flat view (Undef while it is not set).     *)
(***************************************************************************)
NoFlat == [valid |-> FALSE, values |-> <<>>, handles |-> <<>>, keyCache |-> Undef]
EmptyFlat == [valid |-> TRUE, values |-> <<>>, handles |-> <<>>, keyCache |-> Undef]

\* new Scope(parent): the application with the scope allocated; its index is
\* Len(scopes) afterwards
newScope(app, parent) ==
  [app EXCEPT !.scopes = Append(@,
     [parent |-> parent, values |-> <<>>, handles |-> <<>>, imports |-> {},
      flat |-> NoFlat])]
lastScope(app) == Len(app.scopes)
fork(app, id) == newScope(app, id)

\* Scope._findCI: the key of `obj` that matches `name`, or "" for null
findCI(obj, name) ==
  IF name \in DOMAIN obj THEN name
  ELSE only({IF found = {} THEN "" ELSE CHOOSE k \in found : TRUE :
             found \in {{k \in DOMAIN obj : toUpperCase(k) = toUpperCase(name)}}})

\* a faulty setValue, which keeps the cached flat view
setValueKeepFlat(app, id, name, val) ==
  IF findCI(app.scopes[id].values, name) \notin {"", name}
  THEN [app |-> app, ok |-> FALSE]
  ELSE [app |-> [app EXCEPT !.scopes[id].values = (name :> val) @@ @],
        ok |-> TRUE]

\* Scope.setValue: [app, ok]; ok is FALSE when the collision error is thrown
setValue(app, id, name, val) ==
  IF findCI(app.scopes[id].values, name) \notin {"", name}
  THEN [app |-> app, ok |-> FALSE]
  ELSE [app |-> [app EXCEPT !.scopes[id].values = (name :> val) @@ @,
                             !.scopes[id].flat = NoFlat],
        ok |-> TRUE]

\* Scope.setHandle
setHandle(app, id, name, handle) ==
  IF findCI(app.scopes[id].handles, name) \notin {"", name}
  THEN [app |-> app, ok |-> FALSE]
  ELSE [app |-> [app EXCEPT !.scopes[id].handles = (name :> handle) @@ @,
                             !.scopes[id].flat = NoFlat],
        ok |-> TRUE]

\* Scope.bindImports
bindImports(app, id, names) ==
  [app EXCEPT !.scopes[id].imports = @ \cup names]

\* Scope.flatten: fills the cached flat view of the scope and of its
\* ancestors; the spread {...parentFlat.handles, ...this.handles} copies every
\* own enumerable property of the parent's flattened handles, _keyCache too
RECURSIVE flatten(_, _)
flatten(app, id) ==
  LET sc == app.scopes[id]
  IN IF sc.flat.valid THEN app
     ELSE LET app1 == IF sc.parent # 0 THEN flatten(app, sc.parent) ELSE app
              pf == IF sc.parent # 0 THEN app1.scopes[sc.parent].flat ELSE EmptyFlat
          IN [app1 EXCEPT !.scopes[id].flat =
                [valid |-> TRUE,
                 values |-> sc.values @@ pf.values,
                 handles |-> sc.handles @@ pf.handles,
                 keyCache |-> pf.keyCache]]

\* Scope.get: a value, [t |-> "handle", h |-> the handle], or Undef
RECURSIVE scopeGet(_, _, _)
scopeGet(app, id, name) ==
  LET sc == app.scopes[id]
  IN only({IF vk # "" THEN sc.values[vk]
           ELSE IF hk # "" THEN [t |-> "handle", h |-> sc.handles[hk]]
           ELSE IF sc.parent # 0 THEN scopeGet(app, sc.parent, name)
           ELSE Undef :
           vk \in {findCI(sc.values, name)}, hk \in {findCI(sc.handles, name)}})

\* parseHandleExpression: a handle expression `@root.rest`
parseHandleExpression(app, id, hx) ==
  only({IF base.t = "handle"
        THEN Handle(base.h.root, base.h.path \o hx.rest)
        ELSE Handle(hx.root, hx.rest) :
        base \in {scopeGet(app, id, hx.root)}})

\* Object.keys(flat.handles): the aliases and, once handlesKey has stored it,
\* the property _keyCache
handleKeys(flat) ==
  DOMAIN flat.handles \cup (IF flat.keyCache = Undef THEN {} ELSE {"_keyCache"})

\* handlesKey(flat.handles) for the flat view of scope `id`: [app, key]
handlesKey(app, id) ==
  LET flat == app.scopes[id].flat
  IN IF flat.keyCache # Undef THEN [app |-> app, key |-> flat.keyCache.v]
     ELSE only({[app |-> [app EXCEPT !.scopes[id].flat.keyCache = Str(key)],
                 key |-> key] :
                key \in {joinComma(sortedUpper(DOMAIN flat.handles, 1))}})

(***************************************************************************)
(* The URL fragment (setupUrlSync and syncStateToUrl of tagmark.js).       *)
(* A fragment is the sequence of its `#`-separated parts:                  *)
(*   [kind |-> "params", pairs]   `k=v&k=v`, pairs of [k, v], v the text   *)
(*   [kind |-> "json", obj]       the URI-encoded JSON text of an object   *)
(* The keys and the texts of the model hold no character that              *)
(* URLSearchParams escapes.                                                *)
(*   location    the fragment of window.location                           *)
(*   act.subs    the namespaces the callback of setupUrlSync subscribes to *)
(*   inbound     the map syncFromUrl parsed last, and whether it is done   *)
(*               assigning it                                              *)
(*   syncs       the calls of syncStateToUrl in the running task           *)
(* (inbound and syncs are records of the run kept for the properties; the  *)
(* program has no such fields).                                            *)
(***************************************************************************)
NoInbound == [state |-> Undef, done |-> TRUE]
ParamsPart(pairs) == [kind |-> "params", pairs |-> pairs]
JsonPart(obj) == [kind |-> "json", obj |-> obj]

\* the keys of the URL namespace in the order Array.prototype.sort gives them
SortedKeys == <<"count", "pos", "tab">>
sortedKeys(keys) == SelectSeq(SortedKeys, LAMBDA k : k \in keys)

\* Array.prototype.join(sep)
RECURSIVE join(_, _)
join(seq, sep) ==
  IF seq = <<>> THEN ""
  ELSE IF Len(seq) = 1 THEN seq[1]
  ELSE seq[1] \o sep \o join(Tail(seq), sep)

\* String(v), and '' for null and undefined (interpolateText)
jsString(v) ==
  CASE isNullish(v) -> ""
    [] v.t = "num" -> ToString(v.v)
    [] v.t = "str" -> v.v
    [] v.t = "bool" -> IF v.v THEN "true" ELSE "false"
    [] OTHER -> "[object]"

\* JSON.parse(JSON.stringify(val)): a fresh value that is not frozen; a
\* property that is undefined is left out and an array element that is
\* undefined becomes null
RECURSIVE jsonValue(_)
jsonValue(val) ==
  CASE val.t = "obj" ->
         Obj([k \in {j \in DOMAIN val.v : val.v[j].t # "undef"} |-> jsonValue(val.v[k])])
    [] val.t = "arr" ->
         Arr([i \in 1..Len(val.v) |->
                IF val.v[i].t = "undef" THEN Null ELSE jsonValue(val.v[i])])
    [] OTHER -> val

\* encodeURIComponent(JSON.stringify(val)) for a value JSON.parse gave
RECURSIVE encodedJson(_)
encodedJson(val) ==
  CASE val.t = "obj" ->
         "%7B" \o join([i \in 1..Len(sortedKeys(DOMAIN val.v)) |->
                          "%22" \o sortedKeys(DOMAIN val.v)[i] \o "%22%3A"
                          \o encodedJson(val.v[sortedKeys(DOMAIN val.v)[i]])],
                       "%2C") \o "%7D"
    [] val.t = "arr" ->
         "%5B" \o join([i \in 1..Len(val.v) |-> encodedJson(val.v[i])], "%2C") \o "%5D"
    [] val.t = "str" -> "%22" \o val.v \o "%22"
    [] OTHER -> jsonStringify(val)

\* the text of one part of a fragment
partText(part) ==
  IF part.kind = "json" THEN encodedJson(part.obj)
  ELSE join([i \in 1..Len(part.pairs) |-> part.pairs[i].k \o "=" \o part.pairs[i].v],
            "&")

\* window.location.hash: '' for a URL without a fragment or with an empty one
locationHash(app) ==
  IF app.location = <<>> THEN ""
  ELSE "#" \o join([i \in 1..Len(app.location) |-> partText(app.location[i])], "#")

\* parts.length ? '#' + parts.join('#') : '#'
hashOf(parts) ==
  IF parts = <<>> THEN "#"
  ELSE "#" \o join([i \in 1..Len(parts) |-> partText(parts[i])], "#")

\* the keys of the attribute `attr` (data-url-include or
\* data-url-includeTransient) of the elements of the document
RECURSIVE includeSet(_, _)
includeSet(vnodes, attr) ==
  IF vnodes = <<>> THEN {}
  ELSE (IF attr \in DOMAIN Head(vnodes).props
        THEN {Head(vnodes).props[attr].v[i] : i \in 1..Len(Head(vnodes).props[attr].v)}
        ELSE {})
       \cup includeSet(Head(vnodes).children, attr)
       \cup includeSet(Tail(vnodes), attr)

\* set.forEach(k => { if (urlState[k] != null) out[k] = urlState[k]; })
picked(urlState, keys) ==
  Obj([k \in {j \in keys : ~isNullish(getProp(urlState, j))} |-> urlState.v[k]])

\* serialize(obj) of syncStateToUrl: no part for the text '', else one part.
\* URLSearchParams.set makes a string of every value.
serialize(obj) ==
  IF DOMAIN obj.v = {} THEN <<>>
  ELSE IF \E k \in DOMAIN obj.v : obj.v[k].t \in {"obj", "arr", "null"}
  THEN <<JsonPart(jsonValue(obj))>>
  ELSE <<ParamsPart([i \in 1..Len(sortedKeys(DOMAIN obj.v)) |->
                       [k |-> sortedKeys(DOMAIN obj.v)[i],
                        v |-> jsString(obj.v[sortedKeys(DOMAIN obj.v)[i]])]])>>

\* a faulty syncStateToUrl, which serializes every key of the namespace
syncStateToUrlAll(app) ==
  only({only({
    [app EXCEPT
       !.location = IF locationHash(app) # hashOf(parts) THEN parts ELSE @,
       !.syncs = Append(@, [parts |-> parts, from |-> app.location,
                            wrote |-> locationHash(app) # hashOf(parts),
                            state |-> urlState, inbound |-> app.inbound,
                            inHandler |-> app.inHandler])] :
    parts \in {serialize(picked(urlState, DOMAIN urlState.v))}}) :
    urlState \in {resolveNamespace(app, "url")}})

\* syncStateToUrl(): history.replaceState(null, '', hash) sets the fragment
syncStateToUrl(app) ==
  only({only({
    [app EXCEPT
       !.location = IF locationHash(app) # hashOf(parts) THEN parts ELSE @,
       !.syncs = Append(@, [parts |-> parts, from |-> app.location,
                            wrote |-> locationHash(app) # hashOf(parts),
                            state |-> urlState, inbound |-> app.inbound,
                            inHandler |-> app.inHandler])] :
    parts \in {serialize(picked(urlState, includeSet(app.dom, "data-url-include")))
               \o serialize(picked(urlState,
                                   includeSet(app.dom, "data-url-includeTransient")))}}) :
    urlState \in {resolveNamespace(app, "url")}})

(***************************************************************************)
(* ActDown: the refresh scheduler (class Impl of ActDown.js).              *)
(*   act.pending, act.needsRefresh   the fields of the same names          *)
(*   act.queued    the microtask Promise.resolve().then(...) is queued     *)
(*   act.proxies   the map `proxies`: namespace name to proxy              *)
(*   act.nextProxy the number of proxies made so far (their identities)    *)
(***************************************************************************)
RECURSIVE runRefresh(_)
\* a faulty scheduleRefresh, which renders at once instead of queueing the
\* microtask
scheduleRefreshNow(app) ==
  IF app.act.pending
  THEN [app EXCEPT !.act.needsRefresh = TRUE]
  ELSE runRefresh([app EXCEPT !.act.pending = TRUE])

\* scheduleRefresh: never renders itself; the first call queues the microtask
scheduleRefresh(app) ==
  IF app.act.pending
  THEN [app EXCEPT !.act.needsRefresh = TRUE]
  ELSE [app EXCEPT !.act.pending = TRUE, !.act.queued = TRUE]

\* notifyNamespace(ns): the subscribers of ns, then scheduleRefresh.  The only
\* callback ever subscribed is that of setupUrlSync.
notifyNamespace(app, ns) ==
  scheduleRefresh(IF ns \in app.act.subs THEN syncStateToUrl(app) ELSE app)

\* `n` mutations of the reactive proxy of namespace ns, each notifying
RECURSIVE notifyTimes(_, _, _)
notifyTimes(app, ns, n) ==
  IF n = 0 THEN app ELSE notifyTimes(notifyNamespace(app, ns), ns, n - 1)

\* the name ActDown knows the namespace of a handle root by
nsName(root) == IF root \in {"global", "url"} THEN root ELSE "local:" \o root

\* a faulty writeHandle, which loses the last segment of the path: the value
\* lands on the parent
writeHandleAtParent(app, handle, value) ==
  LET base == resolveNamespace(app, handle.root)
      path == IF Len(handle.path) > 1 THEN Front(handle.path) ELSE <<"value">>
  IN IF isNullish(base) THEN [app |-> app, ok |-> FALSE]
     ELSE only({[app |-> notifyTimes(withNamespace(app, handle.root, r.v),
                                     nsName(handle.root), r.n),
                 ok |-> r.ok] :
                r \in {writePath(base, TRUE, path, value)}})

\* writeHandle(app, handle, value): [app, ok]; ok is FALSE when it throws
writeHandle(app, handle, value) ==
  LET base == resolveNamespace(app, handle.root)
  IN IF isNullish(base) THEN [app |-> app, ok |-> FALSE]
     ELSE only({[app |-> notifyTimes(IF r.ok
                                     THEN withNamespace(app, handle.root, r.v)
                                     ELSE app,
                                     nsName(handle.root), r.n),
                 ok |-> r.ok] :
                r \in {writePath(base, TRUE, handle.path, value)}})

(***************************************************************************)
(* Handle proxies (makeHandleProxy).  A proxy is the value                 *)
(* [t |-> "proxy", h |-> handle, mode |-> "pure" or "effect"].             *)
(***************************************************************************)
Proxy(h, mode) == [t |-> "proxy", h |-> h, mode |-> mode]

\* the get trap, for a property other than valueOf and toPrimitive
proxyGet(app, px, prop) ==
  only({IF isNullish(base) THEN Proxy(extend(px.h, prop), px.mode)
        ELSE only({IF isObject(val) THEN Proxy(extend(px.h, prop), px.mode)
                   ELSE IF val.t = "method"
                   THEN [t |-> "bound", name |-> prop, h |-> px.h]
                   ELSE val :
                   val \in {getProp(base, prop)}}) :
        base \in {readHandle(app, px.h)}})

\* the set trap: [app, ok]
proxySet(app, px, prop, value) ==
  IF px.mode = "pure" THEN [app |-> app, ok |-> FALSE]
  ELSE writeHandle(app, extend(px.h, prop), value)

\* a call of a function the get trap returned: val.bind(base)(arg), where
\* base is the reactive array at the handle; push on a frozen array throws.
\* [app, v, ok]
callBound(app, fn, arg) ==
  only({IF fn.name = "push" /\ base.t = "arr" /\ ~base.fz
        THEN LET arr == [base EXCEPT !.v = Append(@, arg)]
             IN [app |-> notifyNamespace(
                           withNamespace(app, fn.h.root,
                                         putPath(resolveNamespace(app, fn.h.root),
                                                 fn.h.path, arr)),
                           nsName(fn.h.root)),
                 v |-> Num(Len(arr.v)), ok |-> TRUE]
        ELSE [app |-> app, v |-> Undef, ok |-> FALSE] :
        base \in {readHandle(app, fn.h)}})

\* proxy.valueOf(): [app, v].  In pure mode the value is
\* freezeDeep(snapshotValue(base)), and snapshotValue returns the live object:
\* what is frozen is the state itself.
proxyValueOf(app, px) ==
  only({IF px.mode = "pure" /\ isObject(base)
        THEN LET frozen == freezeDeep(base)
             IN [app |-> withNamespace(app, px.h.root,
                                       putPath(resolveNamespace(app, px.h.root),
                                               px.h.path, frozen)),
                 v |-> frozen]
        ELSE [app |-> app, v |-> base] :
        base \in {readHandle(app, px.h)}})

(***************************************************************************)
(* Expressions.  The text of an expression is kept (the caches are keyed   *)
(* by it) together with its syntax tree:                                   *)
(*   lit   a literal                       get   ref.p1.p2                 *)
(*   set   ref.p1.p2 = arg                 call  ref.p1.method(arg)        *)
(*   seq   (arg1, arg2)                    not   !arg                      *)
(* A ref is an identifier: `@name` (h is TRUE) or `$name`.                 *)
(***************************************************************************)
HANDLE_PREFIX == "$H$"
HRef(name) == [h |-> TRUE, name |-> name]
VRef(name) == [h |-> FALSE, name |-> name]
ELit(text, val) == [k |-> "lit", text |-> text, val |-> val]
EGet(text, ref, path) == [k |-> "get", text |-> text, ref |-> ref, path |-> path]
ESet(text, ref, path, rhs) ==
  [k |-> "set", text |-> text, ref |-> ref, path |-> path, args |-> <<rhs>>]
ECall(text, ref, path, method, arg) ==
  [k |-> "call", text |-> text, ref |-> ref, path |-> path, method |-> method,
   args |-> <<arg>>]
ESeq(text, a, b) == [k |-> "seq", text |-> text, args |-> <<a, b>>]
ENot(text, a) == [k |-> "not", text |-> text, args |-> <<a>>]

\* the identifiers an expression mentions
RECURSIVE refs(_)
refs(e) ==
  (IF e.k \in {"get", "set", "call"} THEN {e.ref} ELSE {}) \cup
  (IF e.k \in {"set", "call", "seq", "not"}
   THEN UNION {refs(e.args[i]) : i \in DOMAIN e.args} ELSE {})

\* transformHandles: `@name` becomes `$H$name` when name is, but for case, one
\* of the known handles; otherwise the `@` stays in the text
transformed(ref, known) ==
  ~ref.h \/ \E h \in known : toUpperCase(h) = toUpperCase(ref.name)
\* the identifier as the compiled function text has it, and its canonical form
rawName(ref) == IF ref.h THEN HANDLE_PREFIX \o ref.name ELSE ref.name
canonName(ref) ==
  IF ref.h THEN HANDLE_PREFIX \o toUpperCase(ref.name) ELSE toUpperCase(ref.name)
\* `new Function(...)` accepts the text: no `@` is left in it
syntaxOk(e, known) == \A r \in refs(e) : transformed(r, known)

\* compileExpr(expr, flat of scope id, cache, stats): [app, key].  The
\* CaseInsensitiveFunction made is the cache entry: fn is FALSE until the
\* first evaluate() compiles it.
compileExpr(app, e, id) ==
  only({LET cacheKey == e.text \o "||" \o hk.key
        IN IF cacheKey \in DOMAIN hk.app.exprCache
           THEN [app |-> hk.app, key |-> cacheKey]
           ELSE [app |-> [hk.app EXCEPT
                            !.exprCache = (cacheKey :>
                                [expr |-> e,
                                 known |-> handleKeys(hk.app.scopes[id].flat),
                                 fn |-> FALSE, params |-> {},
                                 aliasToCanon |-> {}]) @@ @,
                            !.compiled = @ + 1],
                 key |-> cacheKey] :
        hk \in {handlesKey(app, id)}})

\* buildEnv: the entries of env, each with its name, the canonical form of
\* the name and its value.  Every key of flat.handles gets a proxy, the
\* property _keyCache (a string, not a Handle: it has no root) too.
buildEnv(app, flat, mode) ==
  {[name |-> k, canon |-> toUpperCase(k), v |-> flat.values[k]] :
      k \in DOMAIN flat.values} \cup
  {[name |-> HANDLE_PREFIX \o k, canon |-> HANDLE_PREFIX \o toUpperCase(k),
    v |-> Proxy(flat.handles[k], mode)] : k \in DOMAIN flat.handles} \cup
  (IF flat.keyCache = Undef THEN {}
   ELSE {[name |-> HANDLE_PREFIX \o "_keyCache",
          canon |-> HANDLE_PREFIX \o toUpperCase("_keyCache"),
          v |-> Proxy(Handle("", <<>>), mode)]})

\* `a === b` for two values bound in one env: objects and proxies made for
\* different names are different objects
strictEq(a, b) == a = b /\ a.t \in {"undef", "null", "bool", "num", "str"}

\* a faulty _canonicalCI, which lets one of two conflicting values win
canonicalCIAny(env) ==
  [ok |-> TRUE,
   ci |-> [c \in {a.canon : a \in env} |-> (CHOOSE a \in env : a.canon = c).v]]

\* _canonicalCI(env): [ok, ci]; ok is FALSE when it throws the conflict error
canonicalCI(env) ==
  LET conflict == \E a, b \in env :
                    a.name # b.name /\ a.canon = b.canon /\ ~strictEq(a.v, b.v)
      canons == {a.canon : a \in env}
  IN [ok |-> ~conflict,
      ci |-> [c \in canons |-> (CHOOSE a \in env : a.canon = c).v]]

\* the value the compiled function has for identifier `ref`: [ok, v]; ok is
\* FALSE for a ReferenceError (the identifier is no parameter of the function)
resolve(entry, ci, ref) ==
  IF rawName(ref) \notin entry.params THEN [ok |-> FALSE, v |-> Undef]
  ELSE only({[ok |-> TRUE, v |-> IF name \in DOMAIN ci THEN ci[name] ELSE Undef] :
             name \in {IF rawName(ref) \in entry.aliasToCanon
                        THEN canonName(ref) ELSE rawName(ref)}})

\* cur.p1.p2...: [ok, v]; ok is FALSE for the TypeError of a property read on
\* null or undefined
RECURSIVE getChain(_, _, _)
getChain(app, cur, path) ==
  IF path = <<>> THEN [ok |-> TRUE, v |-> cur]
  ELSE IF cur.t = "proxy"
  THEN getChain(app, proxyGet(app, cur, Head(path)), Tail(path))
  ELSE IF isNullish(cur) THEN [ok |-> FALSE, v |-> Undef]
  ELSE getChain(app, getProp(cur, Head(path)), Tail(path))

Thrown(app) == [app |-> app, v |-> Undef, ok |-> FALSE]

\* the body of the compiled function: [app, v, ok]
RECURSIVE run(_, _, _, _)
run(app, entry, ci, e) ==
  CASE e.k = "lit" -> [app |-> app, v |-> e.val, ok |-> TRUE]
    [] e.k = "get" ->
         only({only({IF r.ok /\ g.ok THEN [app |-> app, v |-> g.v, ok |-> TRUE]
                     ELSE Thrown(app) :
                     g \in {getChain(app, r.v, e.path)}}) :
               r \in {resolve(entry, ci, e.ref)}})
    [] e.k = "set" ->
         only({only({
           IF ~(r.ok /\ g.ok) THEN Thrown(app)
           ELSE IF ~rhs.ok THEN Thrown(rhs.app)
           ELSE IF g.v.t # "proxy" THEN Thrown(rhs.app)
           ELSE only({[app |-> w.app, v |-> rhs.v, ok |-> w.ok] :
                      w \in {proxySet(rhs.app, g.v, Last(e.path), rhs.v)}}) :
           g \in {getChain(app, r.v, Front(e.path))},
           rhs \in {run(app, entry, ci, e.args[1])}}) :
           r \in {resolve(entry, ci, e.ref)}})
    [] e.k = "call" ->
         only({only({
           IF ~(r.ok /\ g.ok) THEN Thrown(app)
           ELSE IF ~arg.ok THEN Thrown(arg.app)
           ELSE IF g.v.t = "proxy"
           THEN [app |-> arg.app, v |-> Undef, ok |-> TRUE]
           ELSE IF g.v.t # "bound" THEN Thrown(arg.app)
           ELSE callBound(arg.app, g.v, arg.v) :
           g \in {getChain(app, r.v, Append(e.path, e.method))},
           arg \in {run(app, entry, ci, e.args[1])}}) :
           r \in {resolve(entry, ci, e.ref)}})
    [] e.k = "seq" ->
         LET a == run(app, entry, ci, e.args[1])
         IN IF a.ok THEN run(a.app, entry, ci, e.args[2]) ELSE a
    [] OTHER ->
         LET a == run(app, entry, ci, e.args[1])
         IN IF a.ok THEN [app |-> a.app, v |-> Bool(~truthy(a.v)), ok |-> TRUE]
            ELSE a

\* CaseInsensitiveFunction.evaluate(env) on the cache entry `key`, with
\* _compile(env) on the first call: [app, v, ok]
evaluate(app, key, env) ==
  LET entry == app.exprCache[key]
  IN only({
       IF ~c.ok THEN Thrown(app)
       ELSE IF ~entry.fn /\ ~syntaxOk(entry.expr, entry.known) THEN Thrown(app)
       ELSE only({run([app EXCEPT !.exprCache[key] = fn], fn, c.ci, entry.expr) :
                  fn \in {IF entry.fn THEN entry
                          ELSE only({[entry EXCEPT
                                        !.fn = TRUE,
                                        !.params = DOMAIN c.ci \cup aliases,
                                        !.aliasToCanon = aliases] :
                                     aliases \in {{rawName(x) : x \in
                                       {y \in refs(entry.expr) :
                                          /\ canonName(y) \in DOMAIN c.ci
                                          /\ rawName(y) # canonName(y)}}}})}}) :
       c \in {canonicalCI(env)}})

\* evalPure and evalEffect
evalMode(app, e, id, mode) ==
  only({evaluate(cx.app, cx.key, buildEnv(cx.app, cx.app.scopes[id].flat, mode)) :
        cx \in {compileExpr(flatten(app, id), e, id)}})
evalPure(app, e, id) == evalMode(app, e, id, "pure")
evalEffect(app, e, id) == evalMode(app, e, id, "effect")

(***************************************************************************)
(* Namespaces: ActDown.state and the runtime's local namespaces.           *)
(***************************************************************************)
\* ActDown.state(namespace, initializer) with an initializer that returns
\* initObj: the proxy is made once per name; the first call with an
\* initializer assigns initObj and $initialized in one batch, which notifies
\* once at its end
state(app, ns, initObj) ==
  only({IF ~truthy(getProp(app1.act.proxies[ns].data, "$initialized"))
        THEN notifyNamespace(
               [app1 EXCEPT !.act.proxies[ns].data =
                  setProp(objectAssign(@, initObj), "$initialized", Bool(TRUE))],
               ns)
        ELSE app1 :
        app1 \in {IF ns \in DOMAIN app.act.proxies THEN app
                  ELSE [app EXCEPT !.act.proxies =
                                      (ns :> [id |-> app.act.nextProxy + 1,
                                              data |-> EmptyObj]) @@ @,
                                   !.act.nextProxy = @ + 1]}})

\* ActDown.state(namespace) without initializer (getSharedActDown)
stateNoInit(app, ns) ==
  IF ns \in DOMAIN app.act.proxies THEN app
  ELSE [app EXCEPT !.act.proxies =
                      (ns :> [id |-> app.act.nextProxy + 1, data |-> EmptyObj]) @@ @,
                   !.act.nextProxy = @ + 1]

\* a faulty ensureLocalNamespace, which makes a new proxy on every call
ensureLocalNamespaceAnew(app, sid, initObj) ==
  IF sid \in DOMAIN app.namespaces.locals
  THEN [app EXCEPT !.act.proxies["local:" \o sid].id = app.act.nextProxy + 1,
                   !.act.nextProxy = @ + 1]
  ELSE [state(app, "local:" \o sid, initObj) EXCEPT
          !.namespaces.locals = (sid :> "local:" \o sid) @@ @]

\* a faulty ensureLocalNamespace, which empties a namespace it finds
ensureLocalNamespaceReset(app, sid, initObj) ==
  IF sid \in DOMAIN app.namespaces.locals
  THEN [app EXCEPT !.act.proxies["local:" \o sid].data = initObj]
  ELSE [state(app, "local:" \o sid, initObj) EXCEPT
          !.namespaces.locals = (sid :> "local:" \o sid) @@ @]

\* ensureLocalNamespace(sid, initObj): `initObj || {}` is the caller's
ensureLocalNamespace(app, sid, initObj) ==
  IF sid \in DOMAIN app.namespaces.locals THEN app
  ELSE [state(app, "local:" \o sid, initObj) EXCEPT
          !.namespaces.locals = (sid :> "local:" \o sid) @@ @]

\* clearNamespace(sid): every key deleted through the proxy, each delete
\* notifying; the proxy stays in the map
clearNamespace(app, sid) ==
  IF sid \notin DOMAIN app.namespaces.locals THEN app
  ELSE LET ns == app.namespaces.locals[sid]
           n == Cardinality(DOMAIN app.act.proxies[ns].data.v)
       IN notifyTimes([app EXCEPT !.act.proxies[ns].data = EmptyObj], ns, n)

\* Object.assign(proxy, source) outside a batch: one assignment, and one
\* notification, for each key of source.  [app, ok]: a frozen target throws.
assignInto(app, root, source) ==
  IF DOMAIN source.v = {} THEN [app |-> app, ok |-> TRUE]
  ELSE only({IF target.fz
             THEN [app |-> notifyNamespace(app, nsName(root)), ok |-> FALSE]
             ELSE [app |-> notifyTimes(
                             withNamespace(app, root, objectAssign(target, source)),
                             nsName(root), Cardinality(DOMAIN source.v)),
                   ok |-> TRUE] :
             target \in {resolveNamespace(app, root)}})

(***************************************************************************)
(* Templates and virtual nodes.                                            *)
(* A template node is a text node, [tag |-> "#text", text, expr] (expr is  *)
(* Undef for text without braces, else the text is `{expr}`), or an        *)
(* element [tag, attrs, children, next]: attrs maps attribute names to     *)
(* their parsed values and next is the nextElementSibling (Undef if none). *)
(*   def     sequence of parts: [kind |-> "local", name] for `@name as     *)
(*           local`, [kind |-> "handle", name, hx], [kind |-> "value",     *)
(*           name, expr]                                                   *)
(*   test, init, on*   an expression;   import   a set of names            *)
(*   each    [bindings, expr, marker]; bindings are [var, role] and marker *)
(*           is [by |-> "index"], [by |-> "field"] or [by |-> "expr", expr]*)
(*   other   the expression of a single-expression value `{expr}`          *)
(* A virtual node is [tag, key, props, children, text].                    *)
(***************************************************************************)
TextLit(s) == [tag |-> "#text", text |-> s, expr |-> Undef]
TextExpr(e) == [tag |-> "#text", text |-> "{" \o e.text \o "}", expr |-> e]
Element(tag, attrs, children) ==
  [tag |-> tag, attrs |-> attrs, children |-> children, next |-> Undef]
VText(s) == [tag |-> "#text", key |-> "", props |-> <<>>, children |-> <<>>, text |-> s]
VNode(tag, key, props, children) ==
  [tag |-> tag, key |-> key, props |-> props, children |-> children, text |-> ""]
hasAttribute(node, a) == a \in DOMAIN node.attrs
NoAttrs == <<>>

\* the attributes renderAttributes skips
SkippedAttrs ==
  {"def", "test", "each", "params", "init", "marker", "import",
   "clear-on-unmount", "bind"}
\* the attributes whose name starts with `on`
OnAttrs == {"onclick"}

\* the render steps of the elements, in the order they happen in the passes
\* of one refresh microtask; each pass starts with the step "pass" (a record
\* of the run kept for the properties; the program has no such field)
logStep(app, sid, step) ==
  [app EXCEPT !.trace = Append(@, [sid |-> sid, step |-> step])]

\* _canCompile(expr, scope): [app, ok], cached by `expr||handlesKey`
canCompile(app, e, id) ==
  only({LET cacheKey == e.text \o "||" \o hk.key
        IN IF cacheKey \in DOMAIN hk.app.compileCheckCache
           THEN [app |-> hk.app, ok |-> hk.app.compileCheckCache[cacheKey]]
           ELSE only({[app |-> [hk.app EXCEPT !.compileCheckCache =
                                                (cacheKey :> result) @@ @],
                       ok |-> result] :
                      result \in {syntaxOk(e, handleKeys(hk.app.scopes[id].flat))}}) :
        hk \in {handlesKey(flatten(app, id), id)}})

\* _parseStructure(text, scope) for a text `{expr}`: [app, isExpr]; the
\* structure is one expression if the body compiles, else literal text.
\* Cached by `text||handlesKey`.
parseStructure(app, node, id) ==
  only({LET cacheKey == node.text \o "||" \o hk.key
        IN IF cacheKey \in DOMAIN hk.app.parseCache
           THEN [app |-> hk.app, isExpr |-> hk.app.parseCache[cacheKey]]
           ELSE only({[app |-> [cc.app EXCEPT !.parseCache =
                                                (cacheKey :> cc.ok) @@ @],
                       isExpr |-> cc.ok] :
                      cc \in {canCompile(hk.app, node.expr, id)}}) :
        hk \in {handlesKey(flatten(app, id), id)}})

\* interpolateText without the catch of parseInterpolationParts: the text of
\* a failed part is whatever was evaluated
interpolateTextNoMarker(app, node, id) ==
  IF node.expr = Undef THEN [app |-> app, text |-> node.text]
  ELSE only({IF ~ps.isExpr THEN [app |-> ps.app, text |-> node.text]
             ELSE only({[app |-> ev.app,
                         text |-> IF ev.ok THEN jsString(ev.v) ELSE ""] :
                        ev \in {evalPure(ps.app, node.expr, id)}}) :
             ps \in {parseStructure(app, node, id)}})

\* interpolateText(text, scope): [app, text]; an evaluation error is caught
\* and shown in the text
interpolateText(app, node, id) ==
  IF node.expr = Undef THEN [app |-> app, text |-> node.text]
  ELSE only({IF ~ps.isExpr THEN [app |-> ps.app, text |-> node.text]
             ELSE only({IF ~ev.ok THEN [app |-> ev.app, text |-> "[Error]"]
                        ELSE [app |-> ev.app, text |-> jsString(ev.v)] :
                        ev \in {evalPure(ps.app, node.expr, id)}}) :
             ps \in {parseStructure(app, node, id)}})

\* interpolateValue(text, scope) for an attribute value `{expr}`: [app, v, ok]
interpolateValue(app, e, id) ==
  only({IF ~ps.isExpr
        THEN [app |-> ps.app, v |-> Str("{" \o e.text \o "}"), ok |-> TRUE]
        ELSE evalPure(ps.app, e, id) :
        ps \in {parseStructure(app, TextExpr(e), id)}})

\* addDefinitions(app, scope, defAttr) on the parts of cleanedDef: [app, ok]
RECURSIVE addDefinitions(_, _, _)
addDefinitions(app, id, parts) ==
  IF parts = <<>> THEN [app |-> app, ok |-> TRUE]
  ELSE LET part == Head(parts)
       IN only({IF r.ok THEN addDefinitions(r.app, id, Tail(parts)) ELSE r :
                r \in {IF part.kind = "handle"
                       THEN setHandle(app, id, part.name,
                                      parseHandleExpression(app, id, part.hx))
                       ELSE only({IF ev.ok
                                  THEN setValue(ev.app, id, part.name, ev.v)
                                  ELSE [app |-> ev.app, ok |-> FALSE] :
                                  ev \in {evalPure(app, part.expr, id)}})}})

\* the `@name as local` part of a def attribute, and the def without it
asLocalMatch(node) ==
  IF hasAttribute(node, "def")
  THEN SelectSeq(node.attrs["def"], LAMBDA part : part.kind = "local")
  ELSE <<>>
cleanedDef(node) ==
  IF hasAttribute(node, "def")
  THEN SelectSeq(node.attrs["def"], LAMBDA part : part.kind # "local")
  ELSE <<>>

(***************************************************************************)
(* Rendering.  Each render operator returns [app, out, ok, ctx]: the       *)
(* application afterwards, the sequence of the virtual nodes returned (one *)
(* node, or none for null), ok FALSE when an error was thrown, and the     *)
(* whenContext afterwards.  A whenContext is an object {matched} passed by *)
(* reference: "none" is no context, "open" is {matched: false} and         *)
(* "matched" is {matched: true}.                                           *)
(***************************************************************************)
Rendered(app, out, ctx) == [app |-> app, out |-> out, ok |-> TRUE, ctx |-> ctx]
Failed(app) == [app |-> app, out |-> <<>>, ok |-> FALSE, ctx |-> "none"]

\* `obj || {}` as the source of Object.assign: a value that is no object has
\* no keys to copy
orEmpty(v) == IF v.t = "obj" THEN v ELSE EmptyObj

\* the number of times the init expression of `sid` has been evaluated (kept
\* for the properties)
countInit(app, sid) ==
  [app EXCEPT !.initEvals =
     (sid :> (IF sid \in DOMAIN @ THEN @[sid] ELSE 0) + 1) @@ @]

\* a faulty applyInit, which does not look into _initRun
applyInitAgain(app, node, id, sid, localHandle) ==
  IF ~hasAttribute(node, "init") THEN [app |-> app, ok |-> TRUE]
  ELSE only({
    IF ~ev.ok THEN [app |-> ev.app, ok |-> FALSE]
    ELSE only({IF localHandle THEN assignInto(app2, sid, orEmpty(ev.v))
               ELSE [app |-> app2, ok |-> TRUE] :
               app2 \in {ensureLocalNamespace(ev.app, sid, orEmpty(ev.v))}}) :
    ev \in {evalPure(logStep(countInit(app, sid), sid, "init"),
                     node.attrs["init"], id)}})

\* applyInit(node, scope, sid, localHandle): [app, ok]
applyInit(app, node, id, sid, localHandle) ==
  LET key == sid
  IN IF ~hasAttribute(node, "init") THEN [app |-> app, ok |-> TRUE]
     ELSE IF key \in app.initRun THEN [app |-> app, ok |-> TRUE]
     ELSE only({
       IF ~ev.ok THEN [app |-> ev.app, ok |-> FALSE]
       ELSE only({IF localHandle THEN assignInto(app2, sid, orEmpty(ev.v))
                  ELSE [app |-> app2, ok |-> TRUE] :
                  app2 \in {ensureLocalNamespace(ev.app, sid, orEmpty(ev.v))}}) :
       ev \in {evalPure(logStep(countInit([app EXCEPT !.initRun = @ \cup {key}],
                                          sid), sid, "init"),
                        node.attrs["init"], id)}})

\* renderAttributes(node, scope): [app, props, ok].  An on* attribute becomes
\* the handler closure (its expression and the scope it closes over); any
\* other attribute is interpolated.
\* an attribute value without braces
Plain(s) == [k |-> "plain", text |-> s]

\* (props.type || '').toLowerCase(): the types of the pages are lower-case
typeOf(props) == IF "type" \in DOMAIN props THEN props["type"].v ELSE ""

\* the tags applyFormBinding binds (the pages have no custom element)
FormElements == {"INPUT", "TEXTAREA", "SELECT"}

\* the handle expression a field is bound by: the attribute `bind`, else
\* `@Form.name` when the scope has a Form and the field a name, else none
bindingOf(app, node, id) ==
  IF hasAttribute(node, "bind") THEN <<node.attrs["bind"]>>
  ELSE IF /\ truthy(scopeGet(app, id, "Form"))
          /\ hasAttribute(node, "name")
          /\ node.attrs["name"].text # ""
  THEN <<[root |-> "Form", rest |-> <<node.attrs["name"].text>>]>>
  ELSE <<>>

\* a faulty applyFormBinding, which binds every field to the property `name`
\* instead of the property the field names
applyFormBindingToName(app, node, id, props) ==
  IF node.tag \notin FormElements \/ bindingOf(app, node, id) = <<>> THEN props
  ELSE only({("value" :> readHandle(app, handle)) @@ props
             @@ ("oninput" :> [t |-> "writer", handle |-> handle])
             @@ ("onchange" :> [t |-> "writer", handle |-> handle]) :
             handle \in {parseHandleExpression(
                           app, id,
                           [root |-> bindingOf(app, node, id)[1].root,
                            rest |-> <<"name">>])}})

\* applyFormBinding(node, scope, props) for a checkbox and for a text field
\* (the fields of the pages are no radio button, file input or multiple
\* select).  Checkbox: props.checked is the truth of the value at the handle
\* and onchange writes ev.target.checked ? (props.value ?? true) : false.
\* Text field: props.value is the value at the handle, and oninput and
\* onchange write ev.target.value to it.  An element keeps handlers of its
\* own.
applyFormBinding(app, node, id, props) ==
  IF node.tag \notin FormElements \/ bindingOf(app, node, id) = <<>> THEN props
  ELSE only({
    IF node.tag = "INPUT" /\ typeOf(props) = "checkbox"
    THEN ("checked" :> Bool(truthy(readHandle(app, handle)))) @@ props
         @@ ("onchange" :> [t |-> "checker", handle |-> handle,
                            value |-> IF "value" \in DOMAIN props
                                      THEN props["value"] ELSE Undef])
    ELSE ("value" :> readHandle(app, handle)) @@ props
         @@ ("oninput" :> [t |-> "writer", handle |-> handle])
         @@ ("onchange" :> [t |-> "writer", handle |-> handle]) :
    handle \in {parseHandleExpression(app, id, bindingOf(app, node, id)[1])}})

RECURSIVE renderAttributes(_, _, _, _, _)
renderAttributes(app, node, id, names, props) ==
  IF names = {} THEN [app |-> app, props |-> props, ok |-> TRUE]
  ELSE LET name == CHOOSE n \in names : TRUE
           rest == names \ {name}
       IN IF name \in SkippedAttrs
          THEN renderAttributes(app, node, id, rest, props)
          ELSE IF name \in OnAttrs
          THEN renderAttributes(app, node, id, rest,
                 (name :> [t |-> "handler", expr |-> node.attrs[name],
                           scope |-> id]) @@ props)
          ELSE IF node.attrs[name].k = "plain"
          THEN renderAttributes(app, node, id, rest,
                 (name :> Str(node.attrs[name].text)) @@ props)
          ELSE only({
            IF ~iv.ok THEN [app |-> iv.app, props |-> props, ok |-> FALSE]
            ELSE renderAttributes(iv.app, node, id, rest,
                   IF isNullish(iv.v) THEN props ELSE (name :> iv.v) @@ props) :
            iv \in {interpolateValue(app, node.attrs[name], id)}})

\* `.filter(Boolean)` on the result of one child: null and '' are dropped
filterBoolean(out) == SelectSeq(out, LAMBDA v : ~(v.tag = "#text" /\ v.text = ""))

RECURSIVE renderNode(_, _, _, _, _, _)
RECURSIVE renderChildrenFrom(_, _, _, _, _, _, _)
RECURSIVE renderElement(_, _, _, _, _)
RECURSIVE renderWhen(_, _, _, _, _, _)
RECURSIVE renderBranch(_, _, _, _, _, _)
RECURSIVE renderLoop(_, _, _, _, _)
RECURSIVE renderItems(_, _, _, _, _, _, _, _)
RECURSIVE renderKids(_, _, _, _, _, _)
RECURSIVE renderUrl(_, _, _, _, _)
RECURSIVE renderForm(_, _, _, _, _)
RECURSIVE renderComponentUsage(_, _, _, _, _)

\* a faulty renderChildren, which numbers a child by its place among the
\* results instead of its place among the child nodes
renderChildrenFromPlace(app, nodes, i, id, parentSid, whenContext, results) ==
  IF i >= Len(nodes) THEN Rendered(app, results, "none")
  ELSE LET node == nodes[i + 1]
           tag == IF node.tag = "#text" THEN "" ELSE node.tag
           ctx == IF tag # "" /\ tag \notin {"WHEN", "ELSE"} THEN "none"
                  ELSE IF tag = "WHEN" THEN "open"
                  ELSE whenContext
       IN only({IF ~r.ok THEN Failed(r.app)
                ELSE renderChildrenFrom(r.app, nodes, i + 1, id, parentSid, r.ctx,
                                        results \o r.out) :
                r \in {renderNode(app, node, id, parentSid, IdxName(Len(results)),
                                  ctx)}})

\* renderChildren: the loop over the child nodes from index i (0-based) on,
\* with the whenContext so far and the results so far
renderChildrenFrom(app, nodes, i, id, parentSid, whenContext, results) ==
  IF i >= Len(nodes) THEN Rendered(app, results, "none")
  ELSE LET node == nodes[i + 1]
           tag == IF node.tag = "#text" THEN "" ELSE node.tag
           ctx == IF tag # "" /\ tag \notin {"WHEN", "ELSE"} THEN "none"
                  ELSE IF tag = "WHEN" THEN "open"
                  ELSE whenContext
       IN only({IF ~r.ok THEN Failed(r.app)
                ELSE renderChildrenFrom(r.app, nodes, i + 1, id, parentSid, r.ctx,
                                        results \o r.out) :
                r \in {renderNode(app, node, id, parentSid, IdxName(i), ctx)}})

renderChildren(app, nodes, id, parentSid) ==
  renderChildrenFrom(app, nodes, 0, id, parentSid, "none", <<>>)

\* renderNode: the pages have text nodes, Loop, When, Else, Url, component
\* use-sites, forms and plain elements (no slot)
renderNode(app, node, id, parentSid, seg, whenContext) ==
  CASE node.tag = "#text" ->
         only({Rendered(t.app, <<VText(t.text)>>, whenContext) :
               t \in {interpolateText(app, node, id)}})
    [] node.tag = "LOOP" ->
         [renderLoop(app, node, id, parentSid, seg) EXCEPT !.ctx = whenContext]
    [] node.tag \in {"WHEN", "ELSE"} ->
         renderWhen(app, node, id, parentSid, seg, whenContext)
    [] node.tag = "URL" ->
         [renderUrl(app, node, id, parentSid, seg) EXCEPT !.ctx = whenContext]
    [] node.tag \in app.act.comps ->
         [renderComponentUsage(app, node, id, parentSid, seg)
          EXCEPT !.ctx = whenContext]
    [] node.tag = "FORM" ->
         [renderForm(app, node, id, parentSid, seg) EXCEPT !.ctx = whenContext]
    [] OTHER ->
         [renderElement(app, node, id, parentSid, seg) EXCEPT !.ctx = whenContext]

\* renderElement
renderElement(app, node, id, parentSid, seg) ==
  LET sid == makeSid(parentSid, seg, NoIter)
      local == asLocalMatch(node)
      localHandle == local # <<>>
      app2 == fork(IF localHandle THEN ensureLocalNamespace(app, sid, EmptyObj)
                   ELSE app, id)
      sc == lastScope(fork(app, id))
  IN only({only({only({
       IF ~defs.ok THEN Failed(defs.app)
       ELSE only({
         IF ~test.ok THEN Failed(test.app)
         ELSE IF ~truthy(test.v) THEN Rendered(test.app, <<>>, "none")
         ELSE only({
           IF ~init.ok THEN Failed(init.app)
           ELSE only({
             IF ~attrs.ok THEN Failed(attrs.app)
             ELSE only({
               IF ~kids.ok THEN Failed(kids.app)
               ELSE Rendered(kids.app,
                             <<VNode(node.tag, sid,
                                     ("key" :> Str(sid)) @@
                                     applyFormBinding(attrs.app, node, sc,
                                                      attrs.props),
                                     kids.out)>>,
                             "none") :
               kids \in {renderChildren(logStep(attrs.app, sid, "children"),
                                        node.children, sc, sid)}}) :
             attrs \in {renderAttributes(logStep(init.app, sid, "attrs"), node, sc,
                                         DOMAIN node.attrs, <<>>)}}) :
           init \in {applyInit(test.app, node, sc, sid, localHandle)}}) :
         test \in {IF hasAttribute(node, "test")
                   THEN evalPure(logStep(defs.app, sid, "test"),
                                 node.attrs["test"], sc)
                   ELSE [app |-> defs.app, v |-> Bool(TRUE), ok |-> TRUE]}}) :
       defs \in {IF cleanedDef(node) # <<>>
                 THEN addDefinitions(logStep(app4, sid, "def"), sc, cleanedDef(node))
                 ELSE [app |-> app4, ok |-> TRUE]}}) :
       app4 \in {IF hasAttribute(node, "import")
                 THEN logStep(bindImports(app3, sc, node.attrs["import"]),
                              sid, "import")
                 ELSE app3}}) :
       app3 \in {IF localHandle
                 THEN setHandle(app2, sc, local[1].name, Handle(sid, <<>>)).app
                 ELSE app2}})

\* the children of a taken When or Else branch: each is rendered through
\* renderNode with the branch's own, already matched, whenContext
renderBranch(app, nodes, i, id, sid, results) ==
  IF i >= Len(nodes) THEN Rendered(app, results, "matched")
  ELSE only({IF ~r.ok THEN Failed(r.app)
             ELSE renderBranch(r.app, nodes, i + 1, id, sid,
                               results \o filterBoolean(r.out)) :
             r \in {renderNode(app, nodes[i + 1], id, sid, IdxName(i), "matched")}})

\* renderWhen, for a When and for an Else.  The context returned is the
\* caller's object afterwards: a context made here, for a caller that passed
\* none, is dropped.
renderWhen(app, node, id, parentSid, seg, whenContext) ==
  LET sid == makeSid(parentSid, seg, NoIter)
      sc == lastScope(fork(app, id))
      ctx == IF whenContext = "none" THEN "open" ELSE whenContext
      after(c) == IF whenContext = "none" THEN "none" ELSE c
  IN only({
       IF ~defs.ok THEN Failed(defs.app)
       ELSE only({
         LET ok == truthy(test.v)
             taken == (node.tag = "WHEN" /\ ok) \/
                      (node.tag = "ELSE" /\ (ok \/ ~hasAttribute(node, "test")))
         IN IF ~test.ok THEN Failed(test.app)
            ELSE IF ctx = "matched" THEN Rendered(test.app, <<>>, after(ctx))
            ELSE IF ~taken THEN Rendered(test.app, <<>>, after(ctx))
            ELSE only({
              IF ~kids.ok THEN Failed(kids.app)
              ELSE Rendered(kids.app,
                            <<VNode("div", sid, "key" :> Str(sid), kids.out)>>,
                            after("matched")) :
              kids \in {renderBranch(test.app, node.children, 0, sc, sid, <<>>)}}) :
         test \in {IF hasAttribute(node, "test")
                   THEN evalPure(defs.app, node.attrs["test"], sc)
                   ELSE [app |-> defs.app, v |-> Bool(TRUE), ok |-> TRUE]}}) :
       defs \in {addDefinitions(fork(app, id), sc, cleanedDef(node))}})

\* the entries of a loop collection: [...collection.entries()] for an array,
\* Object.entries for an object (in an order of the model's choosing)
RECURSIVE objectEntries(_, _)
objectEntries(obj, keys) ==
  IF keys = {} THEN <<>>
  ELSE LET k == CHOOSE x \in keys : TRUE
       IN <<[k |-> Str(k), v |-> obj.v[k]]>> \o objectEntries(obj, keys \ {k})
entries(collection) ==
  CASE collection.t = "arr" ->
         [i \in 1..Len(collection.v) |-> [k |-> Num(i - 1), v |-> collection.v[i]]]
    [] collection.t = "obj" -> objectEntries(collection, DOMAIN collection.v)
    [] OTHER -> <<>>

\* bindings.forEach(...): the loop variables of one iteration.  [app, ok]
RECURSIVE bindLoopVars(_, _, _, _, _, _)
bindLoopVars(app, it, bindings, item, index, lastIndex) ==
  IF bindings = <<>> THEN [app |-> app, ok |-> TRUE]
  ELSE LET b == Head(bindings)
           val == CASE b.role = "index" -> Num(index)
                    [] b.role = "field" -> item.k
                    [] b.role = "isFirst" -> Bool(index = 0)
                    [] b.role = "isLast" -> Bool(index = lastIndex)
                    [] OTHER -> item.v
       IN only({IF r.ok
                THEN bindLoopVars(r.app, it, Tail(bindings), item, index, lastIndex)
                ELSE r :
                r \in {setValue(app, it, b.var, val)}})

\* a faulty marker, which is the index whatever `marked by` says
markValIndex(app, marker, it, item, index) ==
  [app |-> app, v |-> Num(index), ok |-> TRUE]

\* the marker value of one iteration: [app, v, ok]
markVal(app, marker, it, item, index) ==
  IF marker.by = "index" THEN [app |-> app, v |-> Num(index), ok |-> TRUE]
  ELSE IF marker.by = "field" THEN [app |-> app, v |-> item.k, ok |-> TRUE]
  ELSE evalPure(app, marker.expr, it)

\* the body of the Loop for one iteration: every child through renderNode,
\* without options
renderKids(app, nodes, i, it, childSid, results) ==
  IF i >= Len(nodes) THEN Rendered(app, results, "none")
  ELSE only({IF ~r.ok THEN Failed(r.app)
             ELSE renderKids(r.app, nodes, i + 1, it, childSid,
                             results \o filterBoolean(r.out)) :
             r \in {renderNode(app, nodes[i + 1], it, childSid, IdxName(i), "none")}})

\* the list of keys of an attribute `include` or `includeTransient`, as the
\* property of the div holds it: JSON.stringify of an array of strings, which
\* JSON.parse reads back as it was
JsonKeys(keys) == [t |-> "json", v |-> keys]

\* the keys of the attribute `a`, split at the commas; none without it
splitKeys(node, a) == IF a \in DOMAIN node.attrs THEN node.attrs[a] ELSE <<>>

\* renderUrl: a div with the include lists and the children of the node
renderUrl(app, node, id, parentSid, seg) ==
  only({IF ~kids.ok THEN Failed(kids.app)
        ELSE Rendered(kids.app,
                      <<VNode("div", makeSid(parentSid, "URL" \o seg, NoIter),
                              ("key" :> Str(makeSid(parentSid, "URL" \o seg, NoIter)))
                              @@ ("data-url-include" :>
                                    JsonKeys(splitKeys(node, "include")))
                              @@ ("data-url-includeTransient" :>
                                    JsonKeys(splitKeys(node, "includeTransient"))),
                              kids.out)>>,
                      "none") :
        kids \in {renderKids(app, node.children, 0, id,
                             makeSid(parentSid, "URL" \o seg, NoIter), <<>>)}})

\* renderForm: the form's handle is @Form in the scope of its children; a
\* form without `bind` has the local namespace of its SID
renderForm(app, node, id, parentSid, seg) ==
  LET sid == makeSid(parentSid, "FORM" \o seg, NoIter)
      sc == lastScope(fork(app, id))
      bound == hasAttribute(node, "bind")
  IN only({only({only({only({only({
       IF ~init.ok THEN Failed(init.app)
       ELSE IF ~named.ok THEN Failed(named.app)
       ELSE IF ~defs.ok THEN Failed(defs.app)
       ELSE IF ~attrs.ok THEN Failed(attrs.app)
       ELSE IF ~kids.ok THEN Failed(kids.app)
       ELSE Rendered(kids.app,
                     <<VNode("form", sid,
                             ("key" :> Str(sid))
                             @@ ("onSubmit" :>
                                   [t |-> "preventDefault",
                                    user |-> IF "onsubmit" \in DOMAIN attrs.props
                                             THEN attrs.props["onsubmit"]
                                             ELSE Undef])
                             @@ [n \in DOMAIN attrs.props \ {"onsubmit"} |->
                                   attrs.props[n]],
                             kids.out)>>,
                     "none") :
       kids \in {renderKids(attrs.app, node.children, 0, sc, sid, <<>>)}}) :
       attrs \in {renderAttributes(defs.app, node, sc, DOMAIN node.attrs, <<>>)}}) :
       defs \in {IF hasAttribute(node, "def")
                 THEN addDefinitions(named.app, sc, node.attrs["def"])
                 ELSE [app |-> named.app, ok |-> TRUE]}}) :
       named \in {setHandle(IF bound THEN init.app
                            ELSE ensureLocalNamespace(init.app, sid, EmptyObj),
                            sc, "Form",
                            IF bound
                            THEN parseHandleExpression(app, id, node.attrs["bind"])
                            ELSE Handle(sid, <<>>))}}) :
       init \in {IF bound THEN [app |-> fork(app, id), ok |-> TRUE]
                 ELSE applyInit(fork(app, id), node, sc, sid, TRUE)}})

\* renderComponentUsage for a use-site without children and with no
\* attribute but `init`, of a template without params and slots: the
\* component vnode ActDown expands, with the SID and the use-site's init
renderComponentUsage(app, node, id, parentSid, seg) ==
  IF node.tag \notin DOMAIN app.templates
  THEN renderElement(app, node, id, parentSid, seg)
  ELSE only({Rendered(app,
                      <<VNode(node.tag, sid,
                              ("key" :> Str(sid)) @@ ("$sid" :> Str(sid)) @@
                              ("$usageInit" :> IF hasAttribute(node, "init")
                                               THEN node.attrs["init"] ELSE Null),
                              <<>>)>>,
                      "none") :
             sid \in {makeSid(parentSid, node.tag \o seg, NoIter)}})

\* `for (const [k, v] of items)` from iteration `index` on; acc holds
\* `rendered` and `seenMarkers`
renderItems(app, node, sc, sid, seg, items, index, acc) ==
  IF index >= Len(items) THEN Rendered(app, acc.rendered, "none")
  ELSE LET item == items[index + 1]
           it == lastScope(fork(app, sc))
           each == node.attrs["each"]
       IN only({
            IF ~bound.ok THEN Failed(bound.app)
            ELSE only({
              LET markKey == stableStringify(mark.v)
                  childSid == makeSid(sid, seg, mark.v)
              IN IF ~mark.ok THEN Failed(mark.app)
                 ELSE IF markKey \in acc.seenMarkers THEN Failed(mark.app)
                 ELSE only({
                   IF ~kids.ok THEN Failed(kids.app)
                   ELSE renderItems(kids.app, node, sc, sid, seg, items, index + 1,
                                    [rendered |-> acc.rendered \o kids.out,
                                     seenMarkers |-> acc.seenMarkers \cup {markKey}]) :
                   kids \in {renderKids(mark.app, node.children, 0, it, childSid,
                                        <<>>)}}) :
              mark \in {markVal(bound.app, each.marker, it, item, index)}}) :
            bound \in {bindLoopVars(fork(app, sc), it, each.bindings, item, index,
                                    Len(items) - 1)}})

\* a faulty test, which finds no <Else> after a Loop
hasFallbackNever(node) == FALSE

\* `next && next.tagName.toUpperCase() === 'ELSE'` for the nextElementSibling
hasFallback(node) == node.next # Undef /\ node.next.tag = "ELSE"

\* renderLoop: the result is the array `rendered` (a fragment), or what the
\* Else after the Loop renders when nothing was rendered
renderLoop(app, node, id, parentSid, seg) ==
  LET sid == makeSid(parentSid, "LOOP" \o seg, NoIter)
      sc == lastScope(fork(app, id))
      each == node.attrs["each"]
  IN IF ~hasAttribute(node, "each") THEN Failed(fork(app, id))
     ELSE only({
       IF ~defs.ok THEN Failed(defs.app)
       ELSE only({
         IF ~cc.ok THEN Failed(cc.app)
         ELSE only({
           IF ~ev.ok THEN Failed(ev.app)
           ELSE only({only({
             IF ~items.ok THEN Failed(items.app)
             ELSE IF items.out = <<>> /\ hasFallback(node)
             THEN renderWhen(items.app, node.next, id, parentSid, seg \o "-else",
                             "open")
             ELSE Rendered(items.app, <<VNode("#array", "", <<>>, items.out)>>,
                           "none") :
             items \in {renderItems(unwrapped.app, node, sc, sid, seg,
                                    entries(IF truthy(unwrapped.v) THEN unwrapped.v
                                            ELSE Arr(<<>>)),
                                    0, [rendered |-> <<>>, seenMarkers |-> {}])}}) :
             unwrapped \in {IF ev.v.t = "proxy" THEN proxyValueOf(ev.app, ev.v)
                            ELSE [app |-> ev.app, v |-> ev.v]}}) :
           ev \in {evalPure(cc.app, each.expr, sc)}}) :
         cc \in {canCompile(defs.app, each.expr, sc)}}) :
       defs \in {addDefinitions(fork(app, id), sc, cleanedDef(node))}})

\* renderRoot(templateNodes, idx, rootAttrs): root is the <tag-mark> element
\* as bootstrap captured it, [idx, attrs, children]
renderRoot(app, root) ==
  LET sid == "TAG-MARK#" \o ToString(root.idx)
      baseScope == lastScope(newScope(app, 0))
      app2 == setHandle(setHandle(newScope(app, 0), baseScope, "Global",
                                  Handle("global", <<>>)).app,
                        baseScope, "Url", Handle("url", <<>>)).app
      local == asLocalMatch(root)
      localHandle == local # <<>>
      initKey == sid \o ":init"
  IN only({only({only({
       IF ~defs.ok THEN Failed(defs.app)
       ELSE only({
         IF ~init.ok THEN Failed(init.app)
         ELSE only({
           IF ~kids.ok THEN Failed(kids.app)
           ELSE Rendered(kids.app, <<VNode("div", "", <<>>, kids.out)>>, "none") :
           kids \in {renderChildren(logStep(init.app, sid, "children"),
                                    root.children, baseScope, sid)}}) :
         init \in {IF ~(/\ hasAttribute(root, "init")
                        /\ localHandle
                        /\ initKey \notin defs.app.initRun)
                   THEN [app |-> defs.app, ok |-> TRUE]
                   ELSE only({
                     IF ~ev.ok THEN [app |-> ev.app, ok |-> FALSE]
                     ELSE IF ev.v.t = "obj" THEN assignInto(ev.app, sid, ev.v)
                     ELSE [app |-> ev.app, ok |-> TRUE] :
                     ev \in {evalPure(
                               logStep(countInit([defs.app EXCEPT
                                                    !.initRun = @ \cup {initKey}],
                                                 sid), sid, "init"),
                               root.attrs["init"], baseScope)}})}}) :
       defs \in {IF cleanedDef(root) # <<>>
                 THEN addDefinitions(logStep(app4, sid, "def"), baseScope,
                                     cleanedDef(root))
                 ELSE [app |-> app4, ok |-> TRUE]}}) :
       app4 \in {IF localHandle
                 THEN setHandle(ensureLocalNamespace(app3, sid, EmptyObj), baseScope,
                                local[1].name, Handle(sid, <<>>)).app
                 ELSE app3}}) :
       app3 \in {IF hasAttribute(root, "import")
                 THEN logStep(bindImports(app2, baseScope, root.attrs["import"]),
                              sid, "import")
                 ELSE app2}})

(***************************************************************************)
(* Components: the function act.def registers for a template, and ActDown's *)
(* expansion of the component vnodes of a rendered tree.                   *)
(***************************************************************************)
\* a faulty check, which lets a use-site init override the template's
doubleInitNever(usageInit, templateInit) == FALSE

\* `$usageInit && templateInit`: both the use-site and the template have init
doubleInit(usageInit, templateInit) == usageInit # Null /\ templateInit # Null

\* renderComponentInstance(name, props, children) for a template without
\* params and slots: [app, out, ok, ctx]; ok is FALSE when it throws
renderComponentInstance(app, name, props, children) ==
  LET template == app.templates[name]
      sid == props["$sid"].v
      usageInit == props["$usageInit"]
      sc == lastScope(newScope(app, 0))
      app2 == setHandle(setHandle(setHandle(newScope(app, 0), sc, name,
                                            Handle(sid, <<>>)).app,
                                  sc, "Global", Handle("global", <<>>)).app,
                        sc, "Url", Handle("url", <<>>)).app
      initAttr == IF usageInit # Null THEN usageInit ELSE template.templateInit
  IN IF doubleInit(usageInit, template.templateInit) THEN Failed(app2)
     ELSE only({
       IF ~init.ok THEN Failed(init.app)
       ELSE renderKids(init.app, template.templateChildren, 0, sc, sid, <<>>) :
       init \in {IF sid \in app2.initRun
                 THEN [app |-> ensureLocalNamespace(app2, sid, EmptyObj), ok |-> TRUE]
                 ELSE IF initAttr = Null
                 THEN [app |-> ensureLocalNamespace(
                                 [app2 EXCEPT !.initRun = @ \cup {sid}], sid, EmptyObj),
                       ok |-> TRUE]
                 ELSE only({
                   IF ~ev.ok THEN [app |-> ev.app, ok |-> FALSE]
                   ELSE [app |-> ensureLocalNamespace(ev.app, sid, orEmpty(ev.v)),
                         ok |-> TRUE] :
                   ev \in {evalPure(countInit([app2 EXCEPT !.initRun = @ \cup {sid}],
                                              sid),
                                    initAttr, sc)}})}})

\* ActDown.error(e, name) for the function of a template, which has no
\* name (the message of the error is left out)
errorVnode ==
  VNode("div", "",
        ("class" :> Str("actdown-error")) @@ ("style" :> Str("background-color: red")),
        <<VText("Error in anonymous component")>>)

\* ActDown.prune(vnodes): [app, out].  A component vnode is replaced by what
\* its function returns, which is pruned in its turn, or by the error vnode
\* when the function throws (_eval); the children of any other vnode are
\* pruned.
RECURSIVE prune(_, _)
prune(app, queue) ==
  IF queue = <<>> THEN [app |-> app, out |-> <<>>]
  ELSE LET node == Head(queue)
       IN IF node.tag \in app.act.comps
          THEN only({prune(r.app, (IF r.ok THEN r.out ELSE <<errorVnode>>)
                                  \o Tail(queue)) :
                     r \in {renderComponentInstance(app, node.tag, node.props,
                                                    node.children)}})
          ELSE only({only({[app |-> rest.app,
                            out |-> <<[node EXCEPT !.children = kids.out]>>
                                    \o rest.out] :
                           rest \in {prune(kids.app, Tail(queue))}}) :
                     kids \in {prune(app, node.children)}})

(***************************************************************************)
(* The refresh microtask and the event handlers.                           *)
(*   app.dom     the children ActDown rendered last (oldChildren of mount) *)
(*   app.scopes  the scopes of the render pass that made app.dom, which    *)
(*               the handlers in app.dom close over                        *)
(***************************************************************************)
\* one call of the refreshFn that mount() registered, which prunes what the
\* render returned: [app, ok].  The scopes
\* of a pass that throws are garbage: the handlers in the DOM still close
\* over the scopes of the pass before.
refreshFn(app, root) ==
  only({IF r.ok
        THEN only({[app |-> [p.app EXCEPT !.dom = p.out], ok |-> TRUE] :
                   p \in {prune(r.app, r.out)}})
        ELSE [app |-> [r.app EXCEPT !.scopes = app.scopes], ok |-> FALSE] :
        r \in {renderRoot(logStep([app EXCEPT !.scopes = <<>>,
                                              !.rendersInEffect = @ \/ app.inHandler],
                                  "", "pass"),
                          root)}})

\* this.refreshFns.forEach(fn => fn()): [app, ok]
RECURSIVE forEachRefreshFn(_, _)
forEachRefreshFn(app, fns) ==
  IF fns = <<>> THEN [app |-> app, ok |-> TRUE]
  ELSE only({IF r.ok THEN forEachRefreshFn(r.app, Tail(fns)) ELSE r :
             r \in {refreshFn(app, Head(fns))}})

\* do { needsRefresh = false; refreshFns.forEach(...) } while (needsRefresh);
\* pending = false.  An error thrown by a refreshFn leaves the microtask
\* with pending still set.  `fuel` bounds the passes the model follows.
RECURSIVE refreshLoop(_, _)
refreshLoop(app, fuel) ==
  only({IF ~r.ok THEN r.app
        ELSE IF r.app.act.needsRefresh
        THEN IF fuel = 0 THEN r.app ELSE refreshLoop(r.app, fuel - 1)
        ELSE [r.app EXCEPT !.act.pending = FALSE] :
        r \in {forEachRefreshFn([app EXCEPT !.act.needsRefresh = FALSE],
                                app.act.refreshFns)}})

MaxPasses == 4
\* the microtask scheduleRefresh queued
runRefresh(app) ==
  refreshLoop([app EXCEPT !.act.queued = FALSE, !.trace = <<>>], MaxPasses)

\* the handler renderAttributes made for an on* attribute, called with an
\* event: the scope forked, $event bound, the expression evaluated in effect
\* mode.  What it throws is reported by the browser and otherwise lost; the
\* forked scope is garbage afterwards.
callHandler(app, h, ev) ==
  LET s == lastScope(fork(app, h.scope))
  IN [evalEffect(setValue(fork([app EXCEPT !.inHandler = TRUE], h.scope),
                          s, "$event", ev).app,
                 h.expr, s).app
      EXCEPT !.inHandler = FALSE, !.scopes = SubSeq(@, 1, Len(app.scopes))]

(***************************************************************************)
(* Construction: new TagMarkRuntime(), getSharedActDown() and bootstrap(). *)
(***************************************************************************)
\* the runtime after its constructor and ensureActDown(): the namespaces
\* 'global' and 'url' made by stateForId, nothing rendered
NewRuntime ==
  LET app0 == [namespaces |-> [global |-> "global", url |-> "url", locals |-> <<>>],
               act |-> [pending |-> FALSE, needsRefresh |-> FALSE, queued |-> FALSE,
                        proxies |-> <<>>, nextProxy |-> 0, refreshFns |-> <<>>,
                        subs |-> {}, comps |-> {}],
               templates |-> <<>>,
               location |-> <<>>, inbound |-> NoInbound, syncs |-> <<>>,
               initRun |-> {}, exprCache |-> <<>>, compiled |-> 0,
               compileCheckCache |-> <<>>, parseCache |-> <<>>,
               scopes |-> <<>>, dom |-> <<>>,
               trace |-> <<>>, initEvals |-> <<>>,
               inHandler |-> FALSE, rendersInEffect |-> FALSE]
  IN stateNoInit(stateNoInit(app0, "global"), "url")

\* deepMerge(target, source): [v, n], the target afterwards and the number of
\* assignments made (each through the reactive proxy)
RECURSIVE deepMerge(_, _, _)
deepMerge(target, source, keys) ==
  IF keys = {} THEN [v |-> target, n |-> 0]
  ELSE LET key == CHOOSE k \in keys : TRUE
           sv == source.v[key]
           tv == getProp(target, key)
           fresh == ~isObject(tv)
           sub == deepMerge(IF fresh THEN EmptyObj ELSE tv, sv, DOMAIN sv.v)
           one == IF sv.t = "obj"
                  THEN [v |-> setProp(target, key, sub.v),
                        n |-> sub.n + (IF fresh THEN 1 ELSE 0)]
                  ELSE [v |-> setProp(target, key, sv), n |-> 1]
           rest == deepMerge(one.v, source, keys \ {key})
       IN [v |-> rest.v, n |-> one.n + rest.n]

\* processGlobalInit() for a <tag-mark-global init="{ ... }">: the init
\* expression evaluated in a scope of its own and merged into @Global
processGlobalInit(app, init) ==
  only({LET app2 == [ev.app EXCEPT !.scopes = <<>>]
        IN IF ev.ok /\ ev.v.t = "obj"
           THEN only({notifyTimes(withNamespace(app2, "global", m.v), "global", m.n) :
                      m \in {deepMerge(resolveNamespace(ev.app, "global"), ev.v,
                                       DOMAIN ev.v.v)}})
           ELSE app2 :
        ev \in {evalPure(newScope(app, 0), init, lastScope(newScope(app, 0)))}})

\* combined[k] = v: a key keeps the place of its first assignment
putEntry(combined, k, v) ==
  IF \E i \in 1..Len(combined) : combined[i].k = k
  THEN [i \in 1..Len(combined) |->
          IF combined[i].k = k THEN [k |-> k, v |-> v] ELSE combined[i]]
  ELSE Append(combined, [k |-> k, v |-> v])

RECURSIVE putEntries(_, _)
putEntries(combined, more) ==
  IF more = <<>> THEN combined
  ELSE putEntries(putEntry(combined, Head(more).k, Head(more).v), Tail(more))

\* what one part of the fragment holds: JSON.parse(decodeURIComponent(part))
\* for a part that starts with `{` or `%7B`, else the combined of
\* new URLSearchParams(part), whose values are strings
partEntries(part) ==
  IF part.kind = "json"
  THEN [i \in 1..Len(sortedKeys(DOMAIN part.obj.v)) |->
          [k |-> sortedKeys(DOMAIN part.obj.v)[i],
           v |-> part.obj.v[sortedKeys(DOMAIN part.obj.v)[i]]]]
  ELSE [i \in 1..Len(part.pairs) |->
          [k |-> part.pairs[i].k, v |-> Str(part.pairs[i].v)]]

\* parseHash() of setupUrlSync: the combined of `combined`, in the order of
\* their keys (the fragments of the model are well-formed)
RECURSIVE parseHash(_, _)
parseHash(parts, combined) ==
  IF parts = <<>> THEN combined
  ELSE parseHash(Tail(parts), putEntries(combined, partEntries(Head(parts))))

\* the object with the given combined
entriesObj(combined) ==
  Obj([k \in {combined[i].k : i \in 1..Len(combined)} |->
         combined[CHOOSE i \in 1..Len(combined) : combined[i].k = k].v])

\* Object.assign(this.namespaces.url, state): the keys of state assigned one
\* after the other through the reactive proxy, each assignment notifying
RECURSIVE assignEntries(_, _)
assignEntries(app, combined) ==
  IF combined = <<>> THEN app
  ELSE assignEntries(
         notifyNamespace(
           withNamespace(app, "url",
                         setProp(resolveNamespace(app, "url"),
                                 Head(combined).k, Head(combined).v)),
           "url"),
         Tail(combined))

\* syncFromUrl of setupUrlSync
syncFromUrl(app) ==
  only({[assignEntries([app EXCEPT !.inbound = [state |-> entriesObj(parsed),
                                                done |-> FALSE]],
                       parsed)
         EXCEPT !.inbound.done = TRUE] :
        parsed \in {parseHash(app.location, <<>>)}})

\* setupUrlSync(): the listener of hashchange registered, the fragment
\* copied into @Url, then the callback subscribed to the namespace 'url'
setupUrlSync(app) == [syncFromUrl(app) EXCEPT !.act.subs = {"url"}]

\* ActDown.mount(renderFn, root): the refreshFn registered and a refresh
\* scheduled
mount(app, root) ==
  scheduleRefresh([app EXCEPT !.act.refreshFns = Append(@, root)])

\* node.tagName.split(':')[0] for a tag that includes ':TEMPLATE', "" for
\* any other tag
templateName(tag) ==
  CASE tag = "CARD:TEMPLATE" -> "CARD"
    [] tag = "PLAIN:TEMPLATE" -> "PLAIN"
    [] OTHER -> ""

\* collectTemplates(root) for templates that are children of the root and
\* have no params: [app, root]; each template is stored, registered as an
\* ActDown component and removed from the root
collectTemplates(app, root) ==
  LET found == SelectSeq(root.children,
                         LAMBDA n : n.tag # "#text" /\ templateName(n.tag) # "")
      names == {templateName(found[i].tag) : i \in DOMAIN found}
      last(name) == CHOOSE i \in DOMAIN found :
                      /\ templateName(found[i].tag) = name
                      /\ \A j \in DOMAIN found :
                           templateName(found[j].tag) = name => j <= i
  IN [app |-> [app EXCEPT
                 !.templates =
                    [name \in names |->
                       [templateChildren |-> found[last(name)].children,
                        templateInit |-> IF hasAttribute(found[last(name)], "init")
                                         THEN found[last(name)].attrs["init"]
                                         ELSE Null]] @@ @,
                 !.act.comps = @ \cup names],
      root |-> [root EXCEPT !.children =
                  SelectSeq(@, LAMBDA n : n.tag = "#text" \/ templateName(n.tag) = "")]]

\* bootstrap() of a page with a <tag-mark-global> and one <tag-mark>, loaded
\* with the given fragment
load(fragment, globalInit, root) ==
  only({setupUrlSync(mount(c.app, c.root)) :
        c \in {collectTemplates(
                 processGlobalInit([NewRuntime EXCEPT !.location = fragment],
                                   globalInit),
                 root)}})

\* the page loaded without a fragment
bootstrap(globalInit, root) == load(<<>>, globalInit, root)

(***************************************************************************)
(* State.                                                                  *)
(*   app   the TagMarkRuntime with the shared ActDown instance             *)
(***************************************************************************)
VARIABLES app
vars == <<app>>

(***************************************************************************)
(* Specification SpecHandle: expressions evaluated against a scope with    *)
(* the handles @Global, @Url, @Local (a local namespace) and               *)
(* @Obj := @Global.obj, as TagMark.evalPure(expr, scope) and               *)
(* TagMark.evalEffect(expr, scope).                                        *)
(***************************************************************************)
MaxItems == 2
LocalSid == "TAG-MARK#0"
BaseScope == 1

gX == EGet("@Global.x", HRef("Global"), <<"x">>)
oY == EGet("@Obj.y", HRef("Obj"), <<"y">>)
lN == EGet("@local.n", HRef("local"), <<"n">>)
lit1 == ELit("1", Num(1))
lit2 == ELit("2", Num(2))
setX(rhs) == ESet("@Global.x = " \o rhs.text, HRef("Global"), <<"x">>, rhs)
setOY(rhs) == ESet("@Obj.y = " \o rhs.text, HRef("Obj"), <<"y">>, rhs)
setLN(rhs) == ESet("@local.n = " \o rhs.text, HRef("local"), <<"n">>, rhs)
pushItem(arg) ==
  ECall("@Global.items.push(" \o arg.text \o ")", HRef("Global"), <<"items">>,
        "push", arg)

\* the expressions evaluated: reads, assignments and a call of a mutating
\* array method
ReadExprs == {gX, oY, lN}
WriteExprs == {setX(lit2), setOY(lit1), setLN(lit1)}
CallExprs == {pushItem(lit1)}
HandleExprs == ReadExprs \cup WriteExprs \cup CallExprs

\* the <tag-mark-global init> objects the harness starts from
GlobalInits ==
  {ELit("{items: []}", Obj("items" :> Arr(<<>>))),
   ELit("{x: 1, obj: {y: 2}, items: [1]}",
        Obj(("x" :> Num(1)) @@ ("obj" :> Obj("y" :> Num(2))) @@
            ("items" :> Arr(<<Num(1)>>))))}

\* the runtime with the base scope a root `def="@Local as local, @Obj :=
\* @Global.obj"` makes
harness(globalInit) ==
  LET app1 == newScope(processGlobalInit(NewRuntime, globalInit), 0)
      app2 == setHandle(setHandle(app1, BaseScope, "Global", Handle("global", <<>>)).app,
                        BaseScope, "Url", Handle("url", <<>>)).app
      app3 == setHandle(ensureLocalNamespace(app2, LocalSid, EmptyObj), BaseScope,
                        "Local", Handle(LocalSid, <<>>)).app
  IN addDefinitions(app3, BaseScope,
       <<[kind |-> "handle", name |-> "Obj", hx |-> [root |-> "Global", rest |-> <<"obj">>]]>>).app

InitHandle == \E g \in GlobalInits : app = harness(g)

\* the arrays stay within the bound
withinItems(a) ==
  LET items == readHandle(a, Handle("global", <<"items">>))
  IN items.t = "arr" => Len(items.v) <= MaxItems

PureEval(e) ==
  LET r == evalPure(app, e, BaseScope)
  IN withinItems(r.app) /\ app' = r.app

EffectEval(e) ==
  LET r == evalEffect(app, e, BaseScope)
  IN withinItems(r.app) /\ app' = r.app

\* the microtask that scheduleRefresh queued
Refresh ==
  /\ app.act.queued
  /\ app' = runRefresh(app)

NextHandle ==
  \/ \E e \in HandleExprs : PureEval(e)
  \/ \E e \in HandleExprs : EffectEval(e)
  \/ Refresh

SpecHandle == InitHandle /\ [][NextHandle]_vars

(***************************************************************************)
(* Properties of the handle proxies (under SpecHandle).                    *)
(***************************************************************************)
\* the data of every namespace, by name
namespaceData(a) == [ns \in DOMAIN a.act.proxies |-> a.act.proxies[ns].data]

\* C1: a pure-mode evaluation leaves the data of every namespace as it was,
\* and an assignment through a pure-mode handle proxy throws.
C1_PureLeavesNamespaces ==
  [][\A e \in HandleExprs :
       LET r == evalPure(app, e, BaseScope)
       IN app' = r.app =>
            /\ namespaceData(app') = namespaceData(app)
            /\ e.k = "set" => ~r.ok]_vars

\* the value a pure-mode read of the target of assignment `e` gives in
\* application `a`: [ok, v].  An object is read as a proxy of its handle,
\* which stands for the value currently at the handle.
readBack(a, e) ==
  LET get == CHOOSE g \in ReadExprs : g.ref = e.ref /\ g.path = e.path
      r == evalPure(a, get, BaseScope)
  IN [ok |-> r.ok,
      v |-> IF r.v.t = "proxy" THEN readHandle(r.app, r.v.h) ELSE r.v]

\* C7: after an effect-mode assignment `@H.p = v` has returned, a pure-mode
\* read of `@H.p` returns v.
C7_WriteThenRead ==
  [][\A e \in WriteExprs :
       LET w == evalEffect(app, e, BaseScope)
       IN (app' = w.app /\ w.ok) =>
            readBack(app', e) = [ok |-> TRUE, v |-> e.args[1].val]]_vars

\* C7 witness: the assignment `@Obj.y = 1` has run (its compiled function is
\* in the cache) where @Global.obj did not exist, and @Global.obj.y is 1
C7_Witness ==
  /\ \E key \in DOMAIN app.exprCache :
       app.exprCache[key].expr = setOY(lit1) /\ app.exprCache[key].fn
  /\ readHandle(app, Handle("global", <<"obj", "y">>)) = Num(1)
  /\ readHandle(app, Handle("global", <<"x">>)) = Undef

(***************************************************************************)
(* Specification Spec: a page with one <tag-mark> root, rendered by the    *)
(* refresh microtask and changed by its event handlers.                    *)
(*                                                                         *)
(*   <tag-mark-global init="{ {show: true, a: false, b: false,             *)
(*                             users: [{id: 1, on: true}, {id: 2, on: false}]} }">*)
(*   <tag-mark def="@App as local" init="{ {n: 0} }">                      *)
(*    0 <section def="@L as local" init="{ {hits: 0} }"                    *)
(*               onclick="@{@Global.show = !@Global.show}">{@L.hits}</section>*)
(*    1 {@Global.a}                                                        *)
(*    2 <When test="{@Global.show}">B</When>                               *)
(*    3 <Else>no B</Else>                                                  *)
(*    4 <Loop each="$u as value of {@Global.users} marked by {$u.id}">     *)
(*        0 <li def="@Row as local" init="{ {picked: false} }"             *)
(*              data-id="{$u.id}" onclick="@{@Row.picked = !@Row.picked}"> *)
(*            {@Row.picked}</li>                                           *)
(*        1 <When test="{$u.on}">on</When>                                 *)
(*        2 <Else>off</Else>                                               *)
(*      </Loop>                                                            *)
(*    5 <Else>no users</Else>                                              *)
(*    6 <footer def="@L as local" init="{ {hits: 0} }"                     *)
(*              onclick="@{(@Global.a = !@Global.a, @Global.b = !@Global.b)}">*)
(*        {@L.hits}{@Global.b}</footer>                                    *)
(*    7 <div import="Math" def="@D as local, $x := {@Global.show}"         *)
(*           test="{$x}" init="{ {n: 1} }" title="{@D.n}">D</div>          *)
(*    8 <button onclick="@{@Global.users = [{id: 2, ...}, {id: 1, ...}]}"> *)
(*    9 <button onclick="@{@Global.users = [{id: 2, on: false}]}">         *)
(*   </tag-mark>                                                           *)
(* The root is <tag-mark def="@App as local" init="{ {n: 0} }">.           *)
(***************************************************************************)
user1 == Obj(("id" :> Num(1)) @@ ("on" :> Bool(TRUE)))
user2 == Obj(("id" :> Num(2)) @@ ("on" :> Bool(FALSE)))
litUsers21 == ELit("[{id: 2, on: false}, {id: 1, on: true}]", Arr(<<user2, user1>>))
litUsers2 == ELit("[{id: 2, on: false}]", Arr(<<user2>>))

xShow == EGet("@Global.show", HRef("Global"), <<"show">>)
xA == EGet("@Global.a", HRef("Global"), <<"a">>)
xB == EGet("@Global.b", HRef("Global"), <<"b">>)
xUsers == EGet("@Global.users", HRef("Global"), <<"users">>)
xUId == EGet("$u.id", VRef("$u"), <<"id">>)
xUOn == EGet("$u.on", VRef("$u"), <<"on">>)
xX == EGet("$x", VRef("$x"), <<>>)
xLHits == EGet("@L.hits", HRef("L"), <<"hits">>)
xDN == EGet("@D.n", HRef("D"), <<"n">>)
xRowPicked == EGet("@Row.picked", HRef("Row"), <<"picked">>)
toggle(get) ==
  ESet(get.text \o " = !" \o get.text, get.ref, get.path, ENot("!" \o get.text, get))
xToggleAB ==
  ESeq("(" \o toggle(xA).text \o ", " \o toggle(xB).text \o ")", toggle(xA), toggle(xB))
setUsers(lit) ==
  ESet("@Global.users = " \o lit.text, HRef("Global"), <<"users">>, lit)
litHits == ELit("{hits: 0}", Obj("hits" :> Num(0)))
litPicked == ELit("{picked: false}", Obj("picked" :> Bool(FALSE)))
litN1 == ELit("{n: 1}", Obj("n" :> Num(1)))
litN0 == ELit("{n: 0}", Obj("n" :> Num(0)))
asLocal(name) == [kind |-> "local", name |-> name]

nodeA ==
  Element("SECTION",
          ("def" :> <<asLocal("L")>>) @@ ("init" :> litHits) @@
          ("onclick" :> toggle(xShow)),
          <<TextExpr(xLHits)>>)
nodeB == Element("WHEN", "test" :> xShow, <<TextLit("B")>>)
nodeNoB == Element("ELSE", NoAttrs, <<TextLit("no B")>>)
nodeRow ==
  Element("LI",
          ("def" :> <<asLocal("Row")>>) @@ ("init" :> litPicked) @@
          ("data-id" :> xUId) @@ ("onclick" :> toggle(xRowPicked)),
          <<TextExpr(xRowPicked)>>)
nodeOn == Element("WHEN", "test" :> xUOn, <<TextLit("on")>>)
nodeOff == Element("ELSE", NoAttrs, <<TextLit("off")>>)
nodeNoUsers == Element("ELSE", NoAttrs, <<TextLit("no users")>>)
nodeLoop ==
  [Element("LOOP",
           "each" :> [bindings |-> <<[var |-> "$u", role |-> "value"]>>,
                      expr |-> xUsers,
                      marker |-> [by |-> "expr", expr |-> xUId]],
           <<nodeRow, nodeOn, nodeOff>>)
   EXCEPT !.next = nodeNoUsers]
nodeC ==
  Element("FOOTER",
          ("def" :> <<asLocal("L")>>) @@ ("init" :> litHits) @@
          ("onclick" :> xToggleAB),
          <<TextExpr(xLHits), TextExpr(xB)>>)
nodeD ==
  Element("DIV",
          ("import" :> {"Math"}) @@
          ("def" :> <<asLocal("D"), [kind |-> "value", name |-> "$x", expr |-> xShow]>>) @@
          ("test" :> xX) @@ ("init" :> litN1) @@ ("title" :> xDN),
          <<TextLit("D")>>)
button(e) == Element("BUTTON", "onclick" :> e, <<>>)

PageChildren ==
  <<nodeA, TextExpr(xA), nodeB, nodeNoB, nodeLoop, nodeNoUsers, nodeC, nodeD,
    button(setUsers(litUsers21)), button(setUsers(litUsers2))>>
PageRoot ==
  [tag |-> "TAG-MARK", idx |-> 0,
   attrs |-> ("def" :> <<asLocal("App")>>) @@ ("init" :> litN0),
   children |-> PageChildren]
PageInit ==
  ELit("{show: true, a: false, b: false, users: [{id: 1, on: true}, {id: 2, on: false}]}",
       Obj(("show" :> Bool(TRUE)) @@ ("a" :> Bool(FALSE)) @@ ("b" :> Bool(FALSE)) @@
           ("users" :> Arr(<<user1, user2>>))))

\* the handlers in a rendered tree
RECURSIVE handlersOf(_)
handlersOf(vnodes) ==
  UNION {(IF "onclick" \in DOMAIN vnodes[i].props
          THEN {vnodes[i].props["onclick"]} ELSE {}) \cup
         handlersOf(vnodes[i].children) : i \in DOMAIN vnodes}

Event == Str("click")
\* the SIDs a page script clears with TagMark.clearNamespace(sid)
ClearSids == {"TAG-MARK#0/0"}

Init == app = bootstrap(PageInit, PageRoot)

\* an event on an element with a handler: a task, which starts only when the
\* microtask queue is empty
Click(h) ==
  /\ ~app.act.queued
  /\ app' = callHandler([app EXCEPT !.syncs = <<>>, !.inbound = NoInbound], h, Event)

ClearNamespace(sid) ==
  /\ ~app.act.queued
  /\ sid \in DOMAIN app.namespaces.locals
  /\ app' = clearNamespace(app, sid)

Next ==
  \/ Refresh
  \/ \E h \in handlersOf(app.dom) : Click(h)
  \/ \E sid \in ClearSids : ClearNamespace(sid)

Spec == Init /\ [][Next]_vars

(***************************************************************************)
(* Properties of the page (under Spec).                                    *)
(***************************************************************************)
\* the vnodes of a rendered tree
RECURSIVE vnodesOf(_)
vnodesOf(vnodes) ==
  UNION {{vnodes[i]} \cup vnodesOf(vnodes[i].children) : i \in DOMAIN vnodes}
\* the keys (SIDs) of the rendered elements
keysOf(a) == {v.key : v \in vnodesOf(a.dom)}
\* the page is rendered and no refresh is queued or running
settled(a) == a.dom # <<>> /\ ~a.act.queued /\ ~a.act.pending
\* the data of @Global, and of the local namespace of `sid`
globalData(a) == a.act.proxies["global"].data
localData(a, sid) == a.act.proxies[a.namespaces.locals[sid]].data
\* the SID of the root and of its child element at child index `seg`
PageSid == "TAG-MARK#" \o ToString(PageRoot.idx)
childSid(seg) == makeSid(PageSid, seg, NoIter)
\* handler expression `e` has been compiled, so it has run
hasRun(a, e) == \E k \in DOMAIN a.exprCache : a.exprCache[k].expr = e

\* C2: over any sequence of render passes, unmount and remount included, the
\* init expression of an element or root is evaluated exactly once per SID:
\* no SID has its init evaluated twice, and every rendered element that has
\* an init has had it evaluated.
InitTags == {"SECTION", "LI", "FOOTER", "DIV"}
identity(a, sid) == a.act.proxies[a.namespaces.locals[sid]].id

\* C3: the local namespace at a SID is the same object in every step, whatever
\* renders, handlers and clearNamespace calls happen.
C3_SameNamespacePerSid ==
  [][\A sid \in DOMAIN app.namespaces.locals :
       /\ sid \in DOMAIN app'.namespaces.locals
       /\ identity(app', sid) = identity(app, sid)]_vars

\* the namespace of the SECTION has been cleared and the page rendered again
C3_Witness ==
  /\ settled(app)
  /\ childSid("0") \in DOMAIN app.namespaces.locals
  /\ "hits" \notin DOMAIN localData(app, childSid("0")).v
  /\ childSid("0") \in keysOf(app)

\* the rendered children of the root
topLevel(a) == a.dom[1].children
\* the keys of the rendered elements with tag `tag` under the root
keysOfTag(a, tag) == {v.key : v \in {w \in vnodesOf(a.dom) : w.tag = tag}}

\* C4: the SECTION before and the FOOTER after the conditional and the
\* iteration have the same SIDs in every render, whichever branch renders and
\* however many rows there are.
C4_SiblingSidsStable ==
  app.dom # <<>> =>
    /\ keysOfTag(app, "SECTION") = {childSid("0")}
    /\ keysOfTag(app, "FOOTER") = {childSid("6")}

\* rendered with the When branch absent and one row instead of two
C4_Witness ==
  /\ settled(app)
  /\ globalData(app).v["show"] = Bool(FALSE)
  /\ Cardinality(keysOfTag(app, "LI")) = 1
  /\ keysOfTag(app, "FOOTER") = {childSid("6")}

\* the rendered rows with marker `m`
rowsOf(a, m) ==
  {v \in vnodesOf(a.dom) : v.tag = "LI" /\ v.props["data-id"] = m}
row(a, m) == only(rowsOf(a, m))
Markers == {Num(1), Num(2)}
\* the markers of the rendered rows, in the order of the rows
RECURSIVE rowOrder(_)
rowOrder(vnodes) ==
  IF vnodes = <<>> THEN <<>>
  ELSE (IF Head(vnodes).tag = "LI" THEN <<Head(vnodes).props["data-id"]>>
        ELSE rowOrder(Head(vnodes).children)) \o rowOrder(Tail(vnodes))

\* C5: a row with a given marker has the same SID after every step, and a
\* render leaves its local state as it was and shows it, whatever the order
\* of the collection has become.
C5_RowFollowsMarker ==
  [][\A m \in Markers :
       (rowsOf(app, m) # {} /\ rowsOf(app', m) # {}) =>
         /\ Cardinality(rowsOf(app', m)) = 1
         /\ row(app', m).key = row(app, m).key
         /\ app.act.queued =>
              /\ localData(app', row(app, m).key) = localData(app, row(app, m).key)
              /\ row(app', m).children[1].text =
                   jsString(localData(app', row(app', m).key).v["picked"])]_vars

\* the row of id 2 was picked, then the collection reordered to [2, 1] and
\* rendered
C5_Witness ==
  /\ settled(app)
  /\ rowOrder(app.dom) = <<Num(2), Num(1)>>
  /\ row(app, Num(2)).children[1].text = "true"
  /\ row(app, Num(1)).children[1].text = "false"

\* the SID of the child at index `seg` of the row with marker `m`
rowChildSid(m, seg) ==
  makeSid(makeSid(makeSid(PageSid, "LOOP4", NoIter), "4", m), seg, NoIter)

\* C6: at most one branch of a When/Else chain renders in a render pass: of
\* the When at child 2 and its Else at child 3, and of the When at child 1
\* and its Else at child 2 of each row.
C6_OneBranchPerChain ==
  /\ ~({childSid("2"), childSid("3")} \subseteq keysOf(app))
  /\ \A m \in Markers :
       ~({rowChildSid(m, "1"), rowChildSid(m, "2")} \subseteq keysOf(app))

\* the text shown for {@Global.a} under the root and for {@Global.b} in the
\* FOOTER
shownA(a) == topLevel(a)[2].text
shownB(a) == only({v \in vnodesOf(a.dom) : v.tag = "FOOTER"}).children[2].text

\* C8: the mutations of one effect-expression evaluation are grouped: no
\* render pass runs during the evaluation of a handler, and a render shows
\* the assignments to @Global.a and @Global.b of one handler together.
C8_EffectsGrouped ==
  /\ ~app.rendersInEffect
  /\ app.dom # <<>> => shownA(app) = shownB(app)
  /\ settled(app) =>
       /\ shownA(app) = jsString(globalData(app).v["a"])
       /\ shownB(app) = jsString(globalData(app).v["b"])

\* the handler that assigns to @Global.a and to @Global.b has run and the
\* page shows both assignments
C8_Witness ==
  /\ settled(app)
  /\ hasRun(app, xToggleAB)
  /\ globalData(app).v["a"] = Bool(TRUE)
  /\ globalData(app).v["b"] = Bool(TRUE)
  /\ shownA(app) = "true"
  /\ shownB(app) = "true"

\* the place of a render step in the order import, init, def, test, other
\* attributes, children
stepRank(step) ==
  CASE step = "import" -> 1
    [] step = "init" -> 2
    [] step = "def" -> 3
    [] step = "test" -> 4
    [] step = "attrs" -> 5
    [] step = "children" -> 6
    [] OTHER -> 0
\* steps i and j of the trace belong to one render pass
samePass(a, i, j) == \A k \in i..j : a.trace[k].step # "pass"

\* C9: within one render pass the steps of an element happen in the order
\* import, init, def, test, other attributes, children.
C9_AttributeOrder ==
  \A i, j \in DOMAIN app.trace :
    (/\ i < j
     /\ app.trace[i].sid = app.trace[j].sid
     /\ samePass(app, i, j)) =>
      stepRank(app.trace[i].step) <= stepRank(app.trace[j].step)

\* the handle signature of the scope a cache entry was compiled for: the
\* handle alias names of the scope, upper-cased
signature(entry) == {toUpperCase(n) : n \in entry.known \ {"_keyCache"}}

\* C10: scopes with equal handle signatures compile an expression text at
\* most once: no two cache entries have the same text and were compiled for
\* scopes with the same signature, and the compile counter is the number of
\* entries.
C10_CompileOncePerSignature ==
  /\ \A k1, k2 \in DOMAIN app.exprCache :
       (/\ app.exprCache[k1].expr.text = app.exprCache[k2].expr.text
        /\ signature(app.exprCache[k1]) = signature(app.exprCache[k2])) => k1 = k2
  /\ app.compiled = Cardinality(DOMAIN app.exprCache)

(***************************************************************************)
(* Scopes and the caches keyed by the handle signature: scopes forked from *)
(* the base scope of a root, `def` bindings of the handle @L and of the    *)
(* value $x, and interpolations of texts in them.                          *)
(***************************************************************************)
MaxScopes == 3
CacheExprs == {xX, xLHits}
CacheValues == {Num(1), Num(2)}

\* the runtime with the base scope renderRoot makes (@Global and @Url) and
\* the local namespace the handle @L refers to
cacheBase ==
  LET app1 == newScope(ensureLocalNamespace(NewRuntime, LocalSid, Obj("hits" :> Num(0))),
                       0)
      app2 == setHandle(app1, BaseScope, "Global", Handle("global", <<>>)).app
  IN setHandle(app2, BaseScope, "Url", Handle("url", <<>>)).app

InitCache == app = cacheBase

\* a scope nothing was forked from: the program binds names in a scope
\* before it forks children from it
isLeaf(a, id) == \A j \in DOMAIN a.scopes : a.scopes[j].parent # id

\* scope.fork()
Fork(id) ==
  /\ Len(app.scopes) < MaxScopes
  /\ app' = fork(app, id)

\* def="@L := ..." in a forked scope
SetHandle(id) ==
  /\ id # BaseScope
  /\ isLeaf(app, id)
  /\ app' = setHandle(app, id, "L", Handle(LocalSid, <<>>)).app

\* def="$x := {v}" in a forked scope
SetValue(id, v) ==
  /\ id # BaseScope
  /\ isLeaf(app, id)
  /\ app' = setValue(app, id, "$x", v).app

\* interpolateText("{e}", scope): _parseStructure, then evalPure of the
\* expression found
Interpolate(e, id) == app' = interpolateText(app, TextExpr(e), id).app

NextCache ==
  \/ \E id \in DOMAIN app.scopes : Fork(id)
  \/ \E id \in DOMAIN app.scopes : SetHandle(id)
  \/ \E id \in DOMAIN app.scopes, v \in CacheValues : SetValue(id, v)
  \/ \E id \in DOMAIN app.scopes, e \in CacheExprs : Interpolate(e, id)

SpecCache == InitCache /\ [][NextCache]_vars

(***************************************************************************)
(* Properties of the caches (under SpecCache).                             *)
(***************************************************************************)
\* the handle signature of scope `id`: the handle alias names visible in it,
\* upper-cased, sorted and joined
trueSignature(a, id) ==
  joinComma(sortedUpper(DOMAIN flatten(a, id).scopes[id].flat.handles, 1))
\* the signature handlesKey gives for the flattened scope `id`
keyOf(a, id) == handlesKey(flatten(a, id), id).key
\* the application with nothing cached: no compiled function, no parse
\* structure, no flattened scope and no stored key
uncached(a) ==
  [a EXCEPT !.exprCache = <<>>, !.compileCheckCache = <<>>, !.parseCache = <<>>,
            !.scopes = [i \in DOMAIN a.scopes |-> [a.scopes[i] EXCEPT !.flat = NoFlat]]]
\* what an evaluation gives: a value, or an error thrown
outcome(r) == [ok |-> r.ok, v |-> IF r.ok THEN r.v ELSE Undef]
\* the cache entry evalPure(e, scope id) uses has been compiled, for a scope
\* with the handles of scope `id`
compiledFor(a, e, id) ==
  LET key == e.text \o "||" \o keyOf(a, id)
  IN /\ key \in DOMAIN a.exprCache
     /\ a.exprCache[key].fn
     /\ signature(a.exprCache[key]) =
          {toUpperCase(n) : n \in DOMAIN flatten(a, id).scopes[id].flat.handles}

\* C11: in every scope whose key is its handle signature, evaluating an
\* expression through the function cached for that signature gives what a
\* fresh compile for the scope gives, whatever $-values the scope binds.
C11_CachedAsFresh ==
  \A id \in DOMAIN app.scopes, e \in CacheExprs :
    (keyOf(app, id) = trueSignature(app, id) /\ compiledFor(app, e, id)) =>
      outcome(evalPure(app, e, id)) = outcome(evalPure(uncached(app), e, id))

\* C12: the signature handlesKey gives for a flattened scope is built from
\* the handle alias names visible in the scope, from all of them and from
\* nothing else.
C12_SignatureFromHandles ==
  \A id \in DOMAIN app.scopes : keyOf(app, id) = trueSignature(app, id)

\* what _parseStructure gives for the text `{e}` in scope `id`
structureOf(a, e, id) == parseStructure(a, TextExpr(e), id).isExpr

\* C13: the parse structure a scope gets for a text is the structure of the
\* text for the scope's handle signature, whatever values the scopes bind
\* that parsed the text before.
C13_StructurePerSignature ==
  \A id \in DOMAIN app.scopes, e \in CacheExprs :
    structureOf(app, e, id) = structureOf(uncached(app), e, id)

(***************************************************************************)
(* A page with <Url> nodes: the keys `tab` and `pos` are always included,  *)
(* `count` while @Url.pos is truthy.                                       *)
(*   <tag-mark>                                                            *)
(*     <Url include="tab" includeTransient="pos">{@Url.tab}</Url>          *)
(*     <When test="{@Url.pos}"><Url include="count"></Url></When>          *)
(*     <button onclick="@{@Url.tab = 'settings'}">                         *)
(*     <button onclick="@{(@Url.tab = 'home', @Url.pos = 1)}">             *)
(*     <button onclick="@{@Url.count = 3}">                                *)
(*     <button onclick="@{@Url.pos = 0}">                                  *)
(*   </tag-mark>                                                           *)
(***************************************************************************)
xUrlTab == EGet("@Url.tab", HRef("Url"), <<"tab">>)
xUrlPos == EGet("@Url.pos", HRef("Url"), <<"pos">>)
setUrl(key, lit) == ESet("@Url." \o key \o " = " \o lit.text, HRef("Url"), <<key>>, lit)
litSettings == ELit("'settings'", Str("settings"))
litHome == ELit("'home'", Str("home"))
lit0 == ELit("0", Num(0))
lit3 == ELit("3", Num(3))
xHomePos ==
  ESeq("(" \o setUrl("tab", litHome).text \o ", " \o setUrl("pos", lit1).text \o ")",
       setUrl("tab", litHome), setUrl("pos", lit1))
nodeUrl ==
  Element("URL", ("include" :> <<"tab">>) @@ ("includeTransient" :> <<"pos">>),
          <<TextExpr(xUrlTab)>>)
nodeUrlCount ==
  Element("WHEN", "test" :> xUrlPos, <<Element("URL", "include" :> <<"count">>, <<>>)>>)
UrlRoot ==
  [tag |-> "TAG-MARK", idx |-> 0, attrs |-> NoAttrs,
   children |-> <<nodeUrl, nodeUrlCount, button(setUrl("tab", litSettings)),
                  button(xHomePos), button(setUrl("count", lit3)),
                  button(setUrl("pos", lit0))>>]
UrlInit == ELit("{}", EmptyObj)

\* the fragments the page is loaded with or the user navigates to:
\* none, #tab=profile&count=3, #tab=profile, #pos=1 and
\* #%7B%22count%22%3A%5B1%5D%7D
Fragments ==
  {<<>>,
   <<ParamsPart(<<[k |-> "tab", v |-> "profile"], [k |-> "count", v |-> "3"]>>)>>,
   <<ParamsPart(<<[k |-> "tab", v |-> "profile"]>>)>>,
   <<ParamsPart(<<[k |-> "pos", v |-> "1"]>>)>>,
   <<JsonPart(Obj("count" :> Arr(<<Num(1)>>)))>>}

InitUrl == \E f \in Fragments : app = load(f, UrlInit, UrlRoot)

\* the event hashchange: the user changed the fragment
HashChange(f) ==
  /\ ~app.act.queued
  /\ f # app.location
  /\ app' = syncFromUrl([app EXCEPT !.location = f, !.syncs = <<>>])

NextUrl ==
  \/ Refresh
  \/ \E h \in handlersOf(app.dom) : Click(h)
  \/ \E f \in Fragments : HashChange(f)

SpecUrl == InitUrl /\ [][NextUrl]_vars

urlData == resolveNamespace(app, "url")

\* C14: once syncFromUrl has run, at the page load and after every change of
\* the fragment, the URL namespace is the map parsed from the fragment: it has
\* exactly the keys of the fragment, with their values.
C14_NamespaceIsParsedMap ==
  (app.inbound.state # Undef /\ app.inbound.done) => urlData = app.inbound.state

\* C15: a call of the outbound synchronizer writes the fragment exactly when
\* the combined fragment it serialized differs from the current fragment; it
\* writes nothing when they are equal, both being empty included.
C15_WriteIffDiffers ==
  \A i \in DOMAIN app.syncs :
    app.syncs[i].wrote <=> (app.syncs[i].parts # app.syncs[i].from)

\* the keys a fragment holds
keysOfParts(parts) ==
  UNION {IF parts[i].kind = "json" THEN DOMAIN parts[i].obj.v
         ELSE {parts[i].pairs[j].k : j \in DOMAIN parts[i].pairs} : i \in DOMAIN parts}
\* the union of the include lists of the mounted <Url> nodes
mountedIncludes ==
  UNION {UNION {{v.props[a].v[i] : i \in DOMAIN v.props[a].v} :
                a \in {"data-url-include", "data-url-includeTransient"} \cap DOMAIN v.props} :
         v \in vnodesOf(app.dom)}
\* the task that just ended wrote the fragment (its refresh is still queued,
\* so the document is the one the synchronizer saw)
wroteFragment == app.act.queued /\ \E i \in DOMAIN app.syncs : app.syncs[i].wrote

\* C16: a fragment the outbound synchronizer writes holds only keys of the
\* include lists of the mounted <Url> nodes; the keys of the namespace that no
\* list includes stay in the namespace and are not in the fragment.
C16_OnlyIncludedKeys ==
  wroteFragment =>
    /\ \A i \in DOMAIN app.syncs :
         /\ app.syncs[i].wrote => keysOfParts(app.syncs[i].parts) \subseteq mountedIncludes
         /\ DOMAIN app.syncs[i].state.v \subseteq DOMAIN urlData.v
    /\ keysOfParts(app.location) \subseteq mountedIncludes
C16_Witness ==
  /\ wroteFragment
  /\ "count" \in DOMAIN urlData.v \ mountedIncludes
  /\ \E i \in DOMAIN app.syncs : "count" \in keysOfParts(app.syncs[i].from)
  /\ keysOfParts(app.location) = {"tab"}

\* C17: no subscriber observes the URL namespace while syncFromUrl has
\* applied only some of the keys it parsed: whenever the callback of the
\* namespace runs during an inbound write, every parsed key has its value.
C17_NeverPartial ==
  \A i \in DOMAIN app.syncs :
    ~app.syncs[i].inbound.done =>
      \A k \in DOMAIN app.syncs[i].inbound.state.v :
        getProp(app.syncs[i].state, k) = app.syncs[i].inbound.state.v[k]

\* the calls of the outbound synchronizer in the running task that wrote the
\* fragment
writes == {i \in DOMAIN app.syncs : app.syncs[i].wrote}

\* C18: the changes of the URL namespace made within one task lead to at most
\* one write of the fragment, and no write is made while the handler of the
\* task is still running.
C18_OneWriteAfterTask ==
  /\ Cardinality(writes) <= 1
  /\ \A i \in writes : ~app.syncs[i].inHandler

(***************************************************************************)
(* serialize and parseHash on their own: `app` is here the record of one   *)
(* round trip, [stage, map, fragment, parsed], for a map with the keys     *)
(* `count` and `tab` whose values are scalars, arrays or objects.          *)
(***************************************************************************)
TripValues ==
  {Str("a"), Str(""), Num(0), Num(3), Bool(FALSE), Arr(<<Num(1)>>),
   Obj("pos" :> Num(1))}
TripMaps ==
  UNION {{Obj(f) : f \in [keys -> TripValues]} : keys \in SUBSET {"count", "tab"}}

InitTrip ==
  \E M \in TripMaps :
    app = [stage |-> "map", map |-> M, fragment |-> <<>>, parsed |-> Undef]

\* frag = serialize(M), the fragment '#' + frag when frag is not empty
Serialize ==
  /\ app.stage = "map"
  /\ app' = [app EXCEPT !.stage = "fragment", !.fragment = serialize(app.map)]

\* parseHash() on that fragment
Parse ==
  /\ app.stage = "fragment"
  /\ app' = [app EXCEPT !.stage = "parsed",
                        !.parsed = entriesObj(parseHash(app.fragment, <<>>))]

NextTrip == Serialize \/ Parse
SpecTrip == InitTrip /\ [][NextTrip]_vars

\* C19: a map serialized to a fragment and parsed back is the same map, for
\* scalar values and, through the JSON part, for maps with object or array
\* values.
C19_RoundTrip == app.stage = "parsed" => app.parsed = app.map

(***************************************************************************)
(* A page with an unbound form:                                            *)
(*   <tag-mark>                                                            *)
(*     <form>                                                              *)
(*       <input name="n"> <input name="m">                                 *)
(*       <button onclick="@{@Form.n = 'y'}">                               *)
(*     </form>                                                             *)
(*   </tag-mark>                                                           *)
(***************************************************************************)
litY == ELit("'y'", Str("y"))
setFormN == ESet("@Form.n = " \o litY.text, HRef("Form"), <<"n">>, litY)
field(name) == Element("INPUT", "name" :> Plain(name), <<>>)
nodeForm == Element("FORM", NoAttrs, <<field("n"), field("m"), button(setFormN)>>)
FormRoot ==
  [tag |-> "TAG-MARK", idx |-> 0, attrs |-> NoAttrs, children |-> <<nodeForm>>]
\* the SID of the form, and the texts the user types
FormSid == makeSid("TAG-MARK#0", "FORM0", NoIter)
FieldTexts == {"", "x", "xx"}

\* the rendered fields, and the writers of their oninput handlers
fieldsOf(vnodes) == {v \in vnodesOf(vnodes) : v.tag = "INPUT"}
fieldNamed(vnodes, name) == {v \in fieldsOf(vnodes) : v.props["name"] = Str(name)}

InitForm == app = load(<<>>, UrlInit, FormRoot)

\* the event input on a field whose text is now x: the handler oninput
Input(v, x) ==
  /\ ~app.act.queued
  /\ app' = writeHandle([app EXCEPT !.syncs = <<>>, !.inbound = NoInbound],
                        v.props["oninput"].handle, Str(x)).app

NextForm ==
  \/ Refresh
  \/ \E h \in handlersOf(app.dom) : Click(h)
  \/ \E v \in fieldsOf(app.dom), x \in FieldTexts : Input(v, x)

SpecForm == InitForm /\ [][NextForm]_vars

\* the data of the form's namespace local:s
formData(a) == a.act.proxies["local:" \o FormSid].data

\* C20: writing x to the text field named n of the unbound form with SID s
\* makes @Form.n equal to x in the namespace local:s, and once the page is
\* rendered every field shows the value its name has in that namespace,
\* whoever wrote it.
C20_FormRoundTrip ==
  /\ \A v \in fieldsOf(app.dom), x \in FieldTexts :
       getProp(formData(writeHandle(app, v.props["oninput"].handle, Str(x)).app),
               v.props["name"].v) = Str(x)
  /\ settled(app) =>
       \A v \in fieldsOf(app.dom) :
         v.props["value"] = getProp(formData(app), v.props["name"].v)
C20_Witness ==
  /\ settled(app)
  /\ \E v \in fieldNamed(app.dom, "n") : v.props["value"] = Str("y")
  /\ \E v \in fieldNamed(app.dom, "m") : v.props["value"] = Str("x")
  /\ getProp(formData(app), "n") = Str("y")
  /\ getProp(formData(app), "m") = Str("x")

(***************************************************************************)
(* A page with an unbound form in each branch of a chain:                  *)
(*   <tag-mark-global init="{ {show: true} }">                             *)
(*   <tag-mark>                                                            *)
(*     <When test="{@Global.show}"><form><input name="n"></form></When>    *)
(*     <Else><form><input name="n"></form></Else>                          *)
(*     <button onclick="@{@Global.show = !@Global.show}">                  *)
(*   </tag-mark>                                                           *)
(***************************************************************************)
formN == Element("FORM", NoAttrs, <<field("n")>>)
BranchRoot ==
  [tag |-> "TAG-MARK", idx |-> 0, attrs |-> NoAttrs,
   children |-> <<Element("WHEN", "test" :> xShow, <<formN>>),
                  Element("ELSE", NoAttrs, <<formN>>),
                  button(toggle(xShow))>>]
BranchInit == ELit("{show: true}", Obj("show" :> Bool(TRUE)))
\* the SIDs of the form of the <When> and of the form of the <Else>
WhenFormSid == makeSid(makeSid("TAG-MARK#0", "0", NoIter), "FORM0", NoIter)
ElseFormSid == makeSid(makeSid("TAG-MARK#0", "1", NoIter), "FORM0", NoIter)

InitBranch == app = load(<<>>, BranchInit, BranchRoot)
NextBranch ==
  \/ Refresh
  \/ \E h \in handlersOf(app.dom) : Click(h)
  \/ \E v \in fieldsOf(app.dom), x \in FieldTexts : Input(v, x)
SpecBranch == InitBranch /\ [][NextBranch]_vars

\* the rendered forms, and the value of field n in the namespace of a form
formsOf(vnodes) == {v \in vnodesOf(vnodes) : v.tag = "form"}
fieldOfForm(a, sid) ==
  IF sid \in DOMAIN a.namespaces.locals THEN getProp(localData(a, sid), "n") ELSE Undef

\* C21: the forms of the two branches have namespaces of their own, no step
\* changes the field values of both, toggling the branch and rendering (the
\* step taken while a refresh is queued) change the field values of neither,
\* and the form that is shown shows the values of its own namespace.
C21_BranchFormsKeepValues ==
  [][/\ WhenFormSid # ElseFormSid
     /\ \/ fieldOfForm(app', WhenFormSid) = fieldOfForm(app, WhenFormSid)
        \/ fieldOfForm(app', ElseFormSid) = fieldOfForm(app, ElseFormSid)
     /\ (app.act.queued \/ globalData(app') # globalData(app)) =>
          \A sid \in DOMAIN app.namespaces.locals :
            /\ sid \in DOMAIN app'.namespaces.locals
            /\ localData(app', sid) = localData(app, sid)
     /\ settled(app') =>
          \A f \in formsOf(app'.dom) : \A v \in fieldsOf(f.children) :
            v.props["value"] = fieldOfForm(app', f.key)]_vars
C21_Witness ==
  /\ settled(app)
  /\ fieldOfForm(app, WhenFormSid) = Str("x")
  /\ fieldOfForm(app, ElseFormSid) = Str("xx")
  /\ \E f \in formsOf(app.dom) :
       f.key = WhenFormSid /\ \E v \in fieldsOf(f.children) : v.props["value"] = Str("x")

(***************************************************************************)
(* A page with checkboxes in an unbound form:                              *)
(*   <tag-mark><form>                                                      *)
(*     <input type="checkbox" name="c">                                    *)
(*     <input type="checkbox" name="d" value="yes">                        *)
(*     <input type="checkbox" name="m">                                    *)
(*   </form></tag-mark>                                                    *)
(***************************************************************************)
checkbox(name) ==
  Element("INPUT", ("type" :> Plain("checkbox")) @@ ("name" :> Plain(name)), <<>>)
checkboxValued(name, value) ==
  Element("INPUT", ("type" :> Plain("checkbox")) @@ ("name" :> Plain(name))
                   @@ ("value" :> Plain(value)), <<>>)
CheckRoot ==
  [tag |-> "TAG-MARK", idx |-> 0, attrs |-> NoAttrs,
   children |-> <<Element("FORM", NoAttrs,
                          <<checkbox("c"), checkboxValued("d", "yes"),
                            checkbox("m")>>)>>]

\* the rendered checkboxes
checkboxesOf(vnodes) == {v \in fieldsOf(vnodes) : typeOf(v.props) = "checkbox"}

\* the handler onchange of a checkbox, called with ev.target.checked
changed(a, v, checked) ==
  writeHandle(a, v.props["onchange"].handle,
              IF checked
              THEN IF isNullish(v.props["onchange"].value) THEN Bool(TRUE)
                   ELSE v.props["onchange"].value
              ELSE Bool(FALSE)).app

InitCheck == app = load(<<>>, UrlInit, CheckRoot)

\* the event change on a checkbox the user has set or cleared
Change(v, checked) ==
  /\ ~app.act.queued
  /\ app' = changed([app EXCEPT !.syncs = <<>>, !.inbound = NoInbound], v, checked)

NextCheck ==
  \/ Refresh
  \/ \E v \in checkboxesOf(app.dom), checked \in BOOLEAN : Change(v, checked)

SpecCheck == InitCheck /\ [][NextCheck]_vars

\* C22: a change event of a checkbox bound by its name in a form leaves at
\* the field's handle the boolean that says whether the checkbox is checked.
C22_CheckedBoolean ==
  \A v \in checkboxesOf(app.dom), checked \in BOOLEAN :
    getProp(formData(changed(app, v, checked)), v.props["name"].v) = Bool(checked)

(***************************************************************************)
(* A page with three iterations of @Global.users:                          *)
(*   <tag-mark-global init="{ {users: [{id: 1, on: true}, {id: 2, on: false}]} }"> *)
(*   <tag-mark>                                                            *)
(*     <Loop each="$u as value of {@Global.users} marked by {$u.id}">      *)
(*       <li def="@Row as local" init="{ {picked: false} }" data-id="{$u.id}" *)
(*           onclick="@{@Row.picked = !@Row.picked}">{@Row.picked}</li>    *)
(*     </Loop>                                                             *)
(*     <Else>no users</Else>                                               *)
(*     <Loop each="$u as value of {@Global.users} marked by index">        *)
(*       <p data-id="{$u.id}"></p></Loop>                                  *)
(*     <Loop each="$u as value of {@Global.users} marked by field">        *)
(*       <b data-id="{$u.id}"></b></Loop>                                  *)
(*     <button onclick="@{@Global.users = ...}"> for each list of Lists    *)
(*   </tag-mark>                                                           *)
(***************************************************************************)
user1off == Obj(("id" :> Num(1)) @@ ("on" :> Bool(FALSE)))
litUsers12 == ELit("[{id: 1, on: true}, {id: 2, on: false}]", Arr(<<user1, user2>>))
litUsersNone == ELit("[]", Arr(<<>>))
litUsers11 == ELit("[{id: 1, on: true}, {id: 1, on: false}]", Arr(<<user1, user1off>>))
litUsersObj == ELit("{a: {id: 1, on: true}}", Obj("a" :> user1))
Lists == <<litUsers12, litUsersNone, litUsers11, litUsersObj>>

loopBy(marker, item) ==
  Element("LOOP",
          "each" :> [bindings |-> <<[var |-> "$u", role |-> "value"]>>,
                     expr |-> xUsers, marker |-> marker],
          <<item>>)
loopByField == loopBy([by |-> "field"], Element("B", "data-id" :> xUId, <<>>))
loopByIndex ==
  [loopBy([by |-> "index"], Element("P", "data-id" :> xUId, <<>>))
   EXCEPT !.next = loopByField]
loopById ==
  [loopBy([by |-> "expr", expr |-> xUId], nodeRow) EXCEPT !.next = nodeNoUsers]
LoopRoot ==
  [tag |-> "TAG-MARK", idx |-> 0, attrs |-> NoAttrs,
   children |-> <<loopById, nodeNoUsers, loopByIndex, loopByField>>
                \o [i \in 1..Len(Lists) |-> button(setUsers(Lists[i]))]]
LoopInit ==
  ELit("{users: [{id: 1, on: true}, {id: 2, on: false}]}",
       Obj("users" :> Arr(<<user1, user2>>)))

InitLoop == app = load(<<>>, LoopInit, LoopRoot)
NextLoop ==
  \/ Refresh
  \/ \E h \in handlersOf(app.dom) : Click(h)
SpecLoop == InitLoop /\ [][NextLoop]_vars

\* the refresh microtask ended with an error thrown by the render: `pending`
\* stays set and nothing is queued
renderFailed(a) == a.act.pending /\ ~a.act.queued
\* the collection the iterations expand
users(a) == getProp(globalData(a), "users")
\* two items of the collection have the same id, the marker of the first Loop
equalMarkers(a) ==
  /\ users(a).t = "arr"
  /\ \E i, j \in DOMAIN users(a).v : i # j /\ users(a).v[i].v["id"] = users(a).v[j].v["id"]
\* the rendered elements with the given tag
taggedOf(a, tag) == {v \in vnodesOf(a.dom) : v.tag = tag}

\* C23: a refresh that expands a collection in which two items give the same
\* marker ends with an error and renders nothing: the document stays as it
\* was.
C23_EqualMarkersFail ==
  [][(app.act.queued /\ equalMarkers(app)) =>
       (renderFailed(app') /\ app'.dom = app.dom)]_vars
C23_Witness ==
  /\ renderFailed(app)
  /\ equalMarkers(app)
  /\ {v.props["data-id"] : v \in taggedOf(app, "LI")} = {Num(1), Num(2)}

\* the fallback of the first Loop: the <Else> after it, rendered by renderLoop
\* under the Loop's own segment
noUsers(a) == users(a).t = "arr" /\ users(a).v = <<>>
fallbackOf(a) ==
  {v \in vnodesOf(a.dom) : v.key = makeSid("TAG-MARK#0", "0-else", NoIter)}

\* C24: after a refresh that expands an empty collection without an error,
\* the <Else> that follows the Loop is rendered as the Loop's fallback, with
\* its children.
C24_EmptyLoopRendersElse ==
  [][(app.act.queued /\ noUsers(app) /\ ~renderFailed(app')) =>
       \E v \in fallbackOf(app') :
          /\ v.tag = "div"
          /\ [i \in DOMAIN v.children |-> v.children[i].text] = <<"no users">>]_vars
C24_Witness ==
  /\ noUsers(app)
  /\ ~app.act.pending
  /\ fallbackOf(app) # {}
  /\ taggedOf(app, "LI") = {}

\* C29: a refresh that expands an object collection in a Loop `marked by
\* index`, or an array in a Loop `marked by field`, ends with an error.
C29_MarkerKindChecked ==
  [][(app.act.queued /\ users(app).t \in {"obj", "arr"} /\ ~noUsers(app)) =>
       renderFailed(app')]_vars

(***************************************************************************)
(* Scopes and their cached flat views: forks, bindings of the value $x,    *)
(* of the handle @L and of imports, and calls of flatten().                *)
(***************************************************************************)
ImportNames == {"Math", "JSON"}

\* import="n" on an element
BindImports(id, n) ==
  /\ n \notin app.scopes[id].imports
  /\ app' = bindImports(app, id, {n})

\* scope.flatten(), as evalPure and the cache keys call it
Flatten(id) ==
  /\ ~app.scopes[id].flat.valid
  /\ app' = flatten(app, id)

NextScope ==
  \/ \E id \in DOMAIN app.scopes : Fork(id)
  \/ \E id \in DOMAIN app.scopes : SetHandle(id)
  \/ \E id \in DOMAIN app.scopes, v \in CacheValues : SetValue(id, v)
  \/ \E id \in DOMAIN app.scopes, n \in ImportNames : BindImports(id, n)
  \/ \E id \in DOMAIN app.scopes : Flatten(id)
SpecScope == InitCache /\ [][NextScope]_vars

\* the bindings visible in a scope, from the scopes themselves: the local
\* ones over those of the parent
RECURSIVE visible(_, _, _)
visible(a, id, kind) ==
  IF id = 0 THEN <<>>
  ELSE a.scopes[id][kind] @@ visible(a, a.scopes[id].parent, kind)

\* C25: whatever values, handles and imports were bound in the scopes and
\* whatever flat views are cached, flatten() of a scope gives the local values
\* and handles over the flattened view of the parent, with every binding made
\* so far.
C25_FlattenReflectsBindings ==
  \A id \in DOMAIN app.scopes :
    LET flat == flatten(app, id).scopes[id].flat
        parent == app.scopes[id].parent
        pf == IF parent = 0 THEN EmptyFlat ELSE flatten(app, parent).scopes[parent].flat
    IN /\ flat.values = app.scopes[id].values @@ pf.values
       /\ flat.handles = app.scopes[id].handles @@ pf.handles
       /\ flat.values = visible(app, id, "values")
       /\ flat.handles = visible(app, id, "handles")
\* a scope with an import, a handle and a value that shadows its parent's,
\* whose cached view has the shadowing value
C25_Witness ==
  \E id \in DOMAIN app.scopes :
    /\ app.scopes[id].parent # 0
    /\ app.scopes[id].imports # {}
    /\ "$x" \in DOMAIN app.scopes[id].values
    /\ "$x" \in DOMAIN app.scopes[app.scopes[id].parent].values
    /\ app.scopes[id].values["$x"] # app.scopes[app.scopes[id].parent].values["$x"]
    /\ app.scopes[id].flat.valid
    /\ app.scopes[id].flat.values["$x"] = app.scopes[id].values["$x"]
    /\ "L" \in DOMAIN app.scopes[id].handles

(***************************************************************************)
(* CaseInsensitiveFunction on its own, as test/case-insensitive-function   *)
(* uses it: new CaseInsensitiveFunction('$x').evaluate(env) for an env     *)
(* that binds $x and any of $X, $u, $U.  `app` is here the record          *)
(* [stage, env, act, result], act holding the function made.               *)
(***************************************************************************)
EnvNames == {"$X", "$u", "$U"}
EnvValues == {Num(1), Num(2), Str("1")}
Envs == UNION {[names \cup {"$x"} -> EnvValues] : names \in SUBSET EnvNames}
\* the env object as evaluate() gets it
envOf(f) == {[name |-> k, canon |-> toUpperCase(k), v |-> f[k]] : k \in DOMAIN f}
\* new CaseInsensitiveFunction('$x')
cifX ==
  [NewRuntime EXCEPT !.exprCache =
     "$x" :> [expr |-> xX, known |-> {}, fn |-> FALSE, params |-> {},
              aliasToCanon |-> {}]]

InitEnv ==
  \E f \in Envs : app = [stage |-> "made", env |-> f, act |-> cifX, result |-> Undef]
Evaluate ==
  /\ app.stage = "made"
  /\ app' = [app EXCEPT !.stage = "evaluated",
                        !.result = evaluate(app.act, "$x", envOf(app.env))]
NextEnv == Evaluate
SpecEnv == InitEnv /\ [][NextEnv]_vars

\* two names of the env fold to one canonical name and have different values
conflicting(f) ==
  \E a, b \in DOMAIN f : a # b /\ toUpperCase(a) = toUpperCase(b) /\ f[a] # f[b]

\* C26: evaluate(env) throws when two names of env that fold to the same
\* canonical name have different values, and otherwise, two such names with
\* the same value included, returns the value of $x.
C26_ConflictIffDifferent ==
  app.stage = "evaluated" =>
    IF conflicting(app.env) THEN ~app.result.ok
    ELSE app.result.ok /\ app.result.v = app.env["$x"]
C26_Witness ==
  /\ app.stage = "evaluated"
  /\ "$X" \in DOMAIN app.env
  /\ app.env["$X"] = app.env["$x"]
  /\ app.result.ok

(***************************************************************************)
(* A page whose inits have the wrong shape:                                *)
(*   <tag-mark-global init="{ {f: {}} }">                                  *)
(*   <tag-mark def="@App as local" init="{5}">                             *)
(*     <section def="@L as local" init="{5}">{@L.hits}</section>           *)
(*     <form bind="@Global.f" init="{ {n: 'y'} }">                         *)
(*       <input name="n"> <input name="m">                                 *)
(*       <button onclick="@{@Form.n = 'y'}">                               *)
(*     </form>                                                             *)
(*   </tag-mark>                                                           *)
(***************************************************************************)
lit5 == ELit("5", Num(5))
litNY == ELit("{n: 'y'}", Obj("n" :> Str("y")))
nodeInit5 ==
  Element("SECTION", ("def" :> <<asLocal("L")>>) @@ ("init" :> lit5),
          <<TextExpr(xLHits)>>)
nodeBoundInit ==
  Element("FORM",
          ("bind" :> [root |-> "Global", rest |-> <<"f">>]) @@ ("init" :> litNY),
          <<field("n"), field("m"), button(setFormN)>>)
ShapeRoot ==
  [tag |-> "TAG-MARK", idx |-> 0,
   attrs |-> ("def" :> <<asLocal("App")>>) @@ ("init" :> lit5),
   children |-> <<nodeInit5, nodeBoundInit>>]
ShapeInit == ELit("{f: {}}", Obj("f" :> EmptyObj))

InitShape == app = load(<<>>, ShapeInit, ShapeRoot)
NextShape ==
  \/ Refresh
  \/ \E v \in fieldsOf(app.dom), x \in FieldTexts : Input(v, x)
  \/ \E h \in handlersOf(app.dom) : Click(h)
SpecShape == InitShape /\ [][NextShape]_vars

\* C28: a refresh of a page with an init that evaluates to a number, on the
\* root and on an element, and with an init on a form that has `bind`, ends
\* with an error.
C28_InitShapeChecked == [][app.act.queued => renderFailed(app')]_vars

(***************************************************************************)
(* A page with components:                                                 *)
(*   <tag-mark-global init="{ {show: true} }">                             *)
(*   <tag-mark>                                                            *)
(*     <Card:Template init="{ {n: 1} }">                                   *)
(*       <p onclick="@{@Card.n = 2}">{@Card.n}</p>                         *)
(*       <b onclick="@{@Card.n = 1}"></b>                                  *)
(*     </Card:Template>                                                    *)
(*     <Plain:Template>                                                    *)
(*       <i onclick="@{@Plain.n = 1}">{@Plain.n}</i>                       *)
(*       <u onclick="@{@Plain.n = 2}"></u>                                 *)
(*     </Plain:Template>                                                   *)
(*     <Card></Card>                                                       *)
(*     <Card init="{ {n: 0} }"></Card>                                     *)
(*     <Plain init="{ {n: 0} }"></Plain>                                   *)
(*     <Nope>?</Nope>                                                      *)
(*     <When test="{@Global.show}"><Card></Card></When>                    *)
(*     <button onclick="@{@Global.show = !@Global.show}">                  *)
(*   </tag-mark>                                                           *)
(***************************************************************************)
xCardN == EGet("@Card.n", HRef("Card"), <<"n">>)
xPlainN == EGet("@Plain.n", HRef("Plain"), <<"n">>)
setCardN(rhs) == ESet("@Card.n = " \o rhs.text, HRef("Card"), <<"n">>, rhs)
setPlainN(rhs) == ESet("@Plain.n = " \o rhs.text, HRef("Plain"), <<"n">>, rhs)
cardTemplate ==
  Element("CARD:TEMPLATE", "init" :> litN1,
          <<Element("P", "onclick" :> setCardN(lit2), <<TextExpr(xCardN)>>),
            Element("B", "onclick" :> setCardN(lit1), <<>>)>>)
plainTemplate ==
  Element("PLAIN:TEMPLATE", NoAttrs,
          <<Element("I", "onclick" :> setPlainN(lit1), <<TextExpr(xPlainN)>>),
            Element("U", "onclick" :> setPlainN(lit2), <<>>)>>)
CompRoot ==
  [tag |-> "TAG-MARK", idx |-> 0, attrs |-> NoAttrs,
   children |-> <<cardTemplate, plainTemplate,
                  Element("CARD", NoAttrs, <<>>),
                  Element("CARD", "init" :> litN0, <<>>),
                  Element("PLAIN", "init" :> litN0, <<>>),
                  Element("NOPE", NoAttrs, <<TextLit("?")>>),
                  Element("WHEN", "test" :> xShow, <<Element("CARD", NoAttrs, <<>>)>>),
                  button(toggle(xShow))>>]
\* the SIDs of the use-sites: the Card, the Card with an init of its own,
\* the Plain, and the Card in the <When>
CardSid == makeSid("TAG-MARK#0", "CARD0", NoIter)
CardInitSid == makeSid("TAG-MARK#0", "CARD1", NoIter)
PlainSid == makeSid("TAG-MARK#0", "PLAIN2", NoIter)

InitComp == app = load(<<>>, BranchInit, CompRoot)
NextComp ==
  \/ Refresh
  \/ \E h \in handlersOf(app.dom) : Click(h)
SpecComp == InitComp /\ [][NextComp]_vars

\* the vnodes ActDown made for components that threw
errorsOf(a) ==
  {v \in vnodesOf(a.dom) : "class" \in DOMAIN v.props
                           /\ v.props["class"] = Str("actdown-error")}

\* C27: the Card whose use-site has an init, its template having one too,
\* is never initialized: no init is evaluated for its SID, the SID is not
\* marked as initialized and it has no namespace; a rendered page shows the
\* error of the component and no body of a third Card.
C27_DoubleInitFails ==
  /\ CardInitSid \notin app.initRun
  /\ CardInitSid \notin DOMAIN app.initEvals
  /\ CardInitSid \notin DOMAIN app.namespaces.locals
  /\ app.dom # <<>> =>
       /\ Cardinality(errorsOf(app)) = 1
       /\ Cardinality(taggedOf(app, "P")) =
            (IF \E v \in vnodesOf(app.dom) : v.key = makeSid("TAG-MARK#0", "4", NoIter)
                                             /\ v.children # <<>>
             THEN 2 ELSE 1)
\* the page rendered with the error, the other components initialized from
\* the template (Card) and from the use-site (Plain)
C27_Witness ==
  /\ settled(app)
  /\ errorsOf(app) # {}
  /\ getProp(localData(app, CardSid), "n") = Num(1)
  /\ getProp(localData(app, PlainSid), "n") = Num(0)

\* C30: the use-site <Nope>, for which no template is defined, fails with an
\* error: a rendered page has no element made from it, and has its error
\* beside that of the Card.
C30_UndefinedComponentFails ==
  app.dom # <<>> =>
    /\ taggedOf(app, "NOPE") = {}
    /\ Cardinality(errorsOf(app)) = 2

(***************************************************************************)
(* More properties of the page with the three iterations (under SpecLoop). *)
(***************************************************************************)
\* the renderings of the <Else> after the first Loop: as the Loop's fallback
\* and as the child 1 of the root
elseOf(a) ==
  {v \in vnodesOf(a.dom) :
     /\ v.key \in {makeSid("TAG-MARK#0", "0-else", NoIter),
                   makeSid("TAG-MARK#0", "1", NoIter)}
     /\ v.children # <<>>}

\* C36: in a page rendered from the current data, the <Else> after the
\* first Loop is rendered once when the collection is empty and not at all
\* when the Loop has rows.
C36_ElseOnceIffEmpty ==
  (app.dom # <<>> /\ ~app.act.pending) =>
    Cardinality(elseOf(app)) = (IF taggedOf(app, "LI") = {} THEN 1 ELSE 0)

(***************************************************************************)
(* A page with When/Else chains inside a taken branch and inside a form:   *)
(*   <tag-mark-global init="{ {show: true, a: false, b: false} }">         *)
(*   <tag-mark>                                                            *)
(*     <When test="{@Global.show}">                                        *)
(*       <When test="{@Global.a}">A</When><Else>not A</Else>               *)
(*     </When>                                                             *)
(*     <Else>hidden</Else>                                                 *)
(*     <form>                                                              *)
(*       <When test="{@Global.b}">B</When><Else>not B</Else>               *)
(*       <input name="n">                                                  *)
(*     </form>                                                             *)
(*     <button> for each of show, a and b, which toggles it                *)
(*   </tag-mark>                                                           *)
(***************************************************************************)
chain(test, yes, no) ==
  <<Element("WHEN", "test" :> test, <<TextLit(yes)>>),
    Element("ELSE", NoAttrs, <<TextLit(no)>>)>>
NestRoot ==
  [tag |-> "TAG-MARK", idx |-> 0, attrs |-> NoAttrs,
   children |-> <<Element("WHEN", "test" :> xShow, chain(xA, "A", "not A")),
                  Element("ELSE", NoAttrs, <<TextLit("hidden")>>),
                  Element("FORM", NoAttrs, chain(xB, "B", "not B") \o <<field("n")>>),
                  button(toggle(xShow)), button(toggle(xA)), button(toggle(xB))>>]
NestInit ==
  ELit("{show: true, a: false, b: false}",
       Obj(("show" :> Bool(TRUE)) @@ ("a" :> Bool(FALSE)) @@ ("b" :> Bool(FALSE))))

InitNest == app = load(<<>>, NestInit, NestRoot)
NextNest ==
  \/ Refresh
  \/ \E h \in handlersOf(app.dom) : Click(h)
  \/ \E v \in fieldsOf(app.dom), x \in FieldTexts : Input(v, x)
SpecNest == InitNest /\ [][NextNest]_vars

\* the SIDs of the branches of a chain whose When is the child 0 and whose
\* Else is the child 1 of the element with the given SID
whenOf(sid) == makeSid(sid, "0", NoIter)
elseAfter(sid) == makeSid(sid, "1", NoIter)
\* of the chain under `sid` exactly the branch that the test selects is
\* rendered
decidedBy(a, sid, test) ==
  /\ whenOf(sid) \in keysOf(a) <=> test
  /\ elseAfter(sid) \in keysOf(a) <=> ~test
flag(a, name) == truthy(getProp(globalData(a), name))

\* C37: in a page rendered from the current data, the chain inside the taken
\* <When test="{@Global.show}"> renders the branch that @Global.a selects, and
\* the chain inside the form the branch that @Global.b selects, and no other.
C37_ChainIsSiblingLocal ==
  (app.dom # <<>> /\ ~app.act.pending) =>
    /\ flag(app, "show") => decidedBy(app, makeSid("TAG-MARK#0", "0", NoIter),
                                      flag(app, "a"))
    /\ decidedBy(app, makeSid("TAG-MARK#0", "FORM2", NoIter), flag(app, "b"))

(***************************************************************************)
(* bootstrap() of whole documents: a document is the sequence, in document *)
(* order, of its <tag-mark-global> elements ("global") and <tag-mark>      *)
(* roots ("root").  Every global has the init of NestInit and every root   *)
(* the children of NestRoot.  `app` is the runtime with two more fields:   *)
(* doc, the document, and accepted, whether bootstrap() returned.  Of      *)
(* several mounted roots app.dom holds the children of the last one.       *)
(***************************************************************************)
MaxDoc == 3
Documents == UNION {[1..n -> {"global", "root"}] : n \in 0..MaxDoc}
places(doc, kind) == {i \in DOMAIN doc : doc[i] = kind}

\* a faulty check, which accepts every document
structureOkAlways(doc) == TRUE

\* the checks of processGlobalInit: not more than one <tag-mark-global>, and
\* the first <tag-mark> does not precede it
structureOk(doc) ==
  /\ Cardinality(places(doc, "global")) <= 1
  /\ \A g \in places(doc, "global") : \A r \in places(doc, "root") : g < r

\* document.querySelectorAll('tag-mark').forEach((root, idx) => ...): the
\* templates collected and the root mounted, for the roots from idx on
RECURSIVE mountRoots(_, _, _)
mountRoots(a, n, idx) ==
  IF idx >= n THEN a
  ELSE only({mountRoots(mount(c.app, c.root), n, idx + 1) :
             c \in {collectTemplates(a, [NestRoot EXCEPT !.idx = idx])}})

\* bootstrap() of a document: [app, ok]; ok is FALSE when processGlobalInit
\* throws, which leaves bootstrap before any root is looked at
bootstrapDocument(doc) ==
  IF ~structureOk(doc) THEN [app |-> NewRuntime, ok |-> FALSE]
  ELSE [app |-> setupUrlSync(
                  mountRoots(IF places(doc, "global") = {} THEN NewRuntime
                             ELSE processGlobalInit(NewRuntime, NestInit),
                             Cardinality(places(doc, "root")), 0)),
        ok |-> TRUE]

InitDoc ==
  \E doc \in Documents :
    app = only({[doc |-> doc, accepted |-> b.ok] @@ b.app :
                b \in {bootstrapDocument(doc)}})
NextDoc ==
  \/ Refresh
  \/ \E h \in handlersOf(app.dom) : Click(h)
SpecDoc == InitDoc /\ [][NextDoc]_vars

\* C31: bootstrap accepts a document exactly if it has at most one global
\* and no root before it; for a document it does not accept, no root is
\* mounted, nothing is scheduled or rendered and @Global stays empty.
C31_StructureChecked ==
  /\ app.accepted <=>
       (/\ Cardinality(places(app.doc, "global")) <= 1
        /\ \A i, j \in DOMAIN app.doc :
             (app.doc[i] = "root" /\ app.doc[j] = "global") => j < i)
  /\ ~app.accepted =>
       /\ app.act.refreshFns = <<>>
       /\ ~app.act.pending /\ ~app.act.queued
       /\ app.dom = <<>>
       /\ globalData(app) = EmptyObj
  /\ app.accepted => Len(app.act.refreshFns) = Cardinality(places(app.doc, "root"))
\* a document with a root before its global, not accepted
C31_Witness ==
  /\ app.doc = <<"root", "global">>
  /\ ~app.accepted
  /\ app.act.refreshFns = <<>>

(***************************************************************************)
(* More properties of the handle proxies (under SpecHandle).               *)
(***************************************************************************)
\* C38: a pure-mode evaluation of a call of a mutating method obtained
\* through a handle proxy leaves the data of every namespace as it was.
C38_PureCallLeavesNamespaces ==
  [][\A e \in CallExprs :
       (/\ e.method \in MutatingMethods
        /\ app' = evalPure(app, e, BaseScope).app)
         => namespaceData(app') = namespaceData(app)]_vars

(***************************************************************************)
(* Errors in text interpolation: a paragraph whose text has a part that    *)
(* assigns to @Global.x, a part that reads a name nothing binds and a part *)
(* that reads @Global.x, beside a span, two form fields and buttons that      *)
(* assign to @Global.x.                                                    *)
(***************************************************************************)
xUnbound == EGet("$nope", VRef("$nope"), <<>>)
TextRoot ==
  [tag |-> "TAG-MARK", idx |-> 0, attrs |-> NoAttrs,
   children |-> <<Element("P", NoAttrs,
                          <<TextExpr(setX(lit2)), TextExpr(xUnbound), TextExpr(gX)>>),
                  Element("SPAN", NoAttrs, <<TextLit("after")>>),
                  Element("FORM", NoAttrs, <<field("n"), field("m")>>),
                  button(setX(lit1)), button(setX(lit2))>>]
TextInit == ELit("{x: 0}", Obj("x" :> Num(0)))

InitText == app = load(<<>>, TextInit, TextRoot)
NextText ==
  \/ Refresh
  \/ \E h \in handlersOf(app.dom) : Click(h)
  \/ \E v \in fieldsOf(app.dom), x \in FieldTexts : Input(v, x)
SpecText == InitText /\ [][NextText]_vars

\* the texts of the children of the one vnode with the given tag
textsIn(a, tag) ==
  {[i \in DOMAIN v.children |-> v.children[i].text] : v \in taggedOf(a, tag)}

\* C32: a render pass shows each failing part of a text as an error marker
\* and renders the parts after it and the elements around the text, and it
\* leaves the property the failing part assigns to as it was.
C32_FailedPartIsMarked ==
  [][app.act.queued =>
       /\ getProp(globalData(app'), "x") = getProp(globalData(app), "x")
       /\ textsIn(app', "P") =
            {<<"[Error]", "[Error]", jsString(getProp(globalData(app), "x"))>>}
       /\ textsIn(app', "SPAN") = {<<"after">>}
       /\ fieldsOf(app'.dom) # {}]_vars
C32_Witness ==
  /\ ~app.act.queued
  /\ getProp(globalData(app), "x") = Num(1)
  /\ textsIn(app, "P") = {<<"[Error]", "[Error]", "1">>}

(***************************************************************************)
(* The debug surface of the expression cache: the scopes, bindings and     *)
(* interpolations of SpecCache, and resets of the cache between them.      *)
(***************************************************************************)
\* a reset that zeroes the counter and leaves the cached entries
resetExprCacheCounterOnly(a) == [a EXCEPT !.compiled = 0]
\* resetExprCache()
resetExprCache(a) ==
  [a EXCEPT !.exprCache = <<>>, !.compiled = 0, !.parseCache = <<>>]
\* getExprCacheStats()
getExprCacheStats(a) ==
  [cacheSize |-> Cardinality(DOMAIN a.exprCache),
   compiled |-> a.compiled,
   parseCache |-> Cardinality(DOMAIN a.parseCache)]

ResetExprCache == app' = resetExprCache(app)

\* the base scope and one scope forked from it
MaxResetScopes == 2
ForkOnce(id) ==
  /\ Len(app.scopes) < MaxResetScopes
  /\ app' = fork(app, id)

NextReset ==
  \/ \E id \in DOMAIN app.scopes : ForkOnce(id)
  \/ \E id \in DOMAIN app.scopes : SetHandle(id)
  \/ \E id \in DOMAIN app.scopes, v \in CacheValues : SetValue(id, v)
  \/ \E id \in DOMAIN app.scopes, e \in CacheExprs : Interpolate(e, id)
  \/ ResetExprCache
SpecReset == InitCache /\ [][NextReset]_vars

\* C33: right after a reset the reported cache size, compile count and
\* number of cached parses are zero, and an evaluation of any expression in
\* any scope makes a new cache entry, counts one compilation and (unless
\* building its environment fails) compiles the function of the entry.
C33_ResetDropsCaches ==
  [][app' = resetExprCache(app) =>
       /\ getExprCacheStats(app') =
            [cacheSize |-> 0, compiled |-> 0, parseCache |-> 0]
       /\ \A id \in DOMAIN app'.scopes, e \in CacheExprs :
            LET r == evalPure(app', e, id)
            IN /\ getExprCacheStats(r.app).compiled = 1
               /\ getExprCacheStats(r.app).cacheSize = 1
               /\ r.ok => \A k \in DOMAIN r.app.exprCache : r.app.exprCache[k].fn]_vars
\* a state right after a reset of caches that held entries: the results of
\* _canCompile, which the reset keeps, are still there
C33_Witness ==
  /\ getExprCacheStats(app) = [cacheSize |-> 0, compiled |-> 0, parseCache |-> 0]
  /\ DOMAIN app.compileCheckCache # {}

(***************************************************************************)
(* Shadowing across scope frames: scopes forked from the base scope, `def` *)
(* bindings of the value $x and of the handle @L under names that differ   *)
(* in letter case, and interpolations of texts in the scopes.              *)
(***************************************************************************)
ValueNames == {"$x", "$X"}
AliasNames == {"L", "l"}

\* def="$x := {v}" or def="$X := {v}" in a forked scope that binds no value
\* yet (the def attribute of the element the scope was forked for)
SetValueAs(id, name, v) ==
  /\ id # BaseScope
  /\ isLeaf(app, id)
  /\ DOMAIN app.scopes[id].values = {}
  /\ app' = setValue(app, id, name, v).app

\* def="@L := @L" or def="@l := @L" in a forked scope that binds no handle
\* yet
SetHandleAs(id, name) ==
  /\ id # BaseScope
  /\ isLeaf(app, id)
  /\ DOMAIN app.scopes[id].handles = {}
  /\ app' = setHandle(app, id, name, Handle(LocalSid, <<>>)).app

\* scope.fork() for an element nested in the element of the last scope
ForkNested(id) ==
  /\ isLeaf(app, id)
  /\ Fork(id)

NextShadow ==
  \/ \E id \in DOMAIN app.scopes : ForkNested(id)
  \/ \E id \in DOMAIN app.scopes, name \in AliasNames : SetHandleAs(id, name)
  \/ \E id \in DOMAIN app.scopes, name \in ValueNames, v \in CacheValues :
       SetValueAs(id, name, v)
  \/ \E id \in DOMAIN app.scopes, e \in CacheExprs : Interpolate(e, id)
SpecShadow == InitCache /\ [][NextShadow]_vars

\* C39: in a scope that binds the value $x or the handle @L under some
\* spelling, evaluating $x (or @L.hits) succeeds and gives the scope's own
\* binding, whatever the spelling of a binding in a parent frame (with
\* nothing cached, so that no entry compiled for another scope is used).
C39_ChildShadowsParent ==
  \A id \in DOMAIN app.scopes :
    /\ \A name \in ValueNames \cap DOMAIN app.scopes[id].values :
         LET r == evalPure(uncached(app), xX, id)
         IN r.ok /\ r.v = app.scopes[id].values[name]
    /\ \A name \in AliasNames \cap DOMAIN app.scopes[id].handles :
         evalPure(uncached(app), xLHits, id).ok

(***************************************************************************)
(* Iteration SIDs: one Loop over @Global.users marked by {$u.id}, whose    *)
(* rows have a local namespace, and buttons that replace the collection by *)
(* lists whose ids are numbers, equal numbers, or null and missing.        *)
(***************************************************************************)
userNull == Obj("id" :> Null)
userNoId == Obj("on" :> Bool(TRUE))
litUsersNullish == ELit("[{id: null}, {on: true}]", Arr(<<userNull, userNoId>>))
litUsersNull2 == ELit("[{id: null}, {id: 2, on: false}]", Arr(<<userNull, user2>>))
RowLists == <<litUsers12, litUsers11, litUsersNullish, litUsersNull2>>
nodeRowLocal ==
  Element("LI",
          ("def" :> <<asLocal("Row")>>) @@ ("init" :> litPicked) @@
          ("data-id" :> xUId),
          <<TextExpr(xRowPicked)>>)
RowsRoot ==
  [tag |-> "TAG-MARK", idx |-> 0, attrs |-> NoAttrs,
   children |-> <<loopBy([by |-> "expr", expr |-> xUId], nodeRowLocal)>>
                \o [i \in 1..Len(RowLists) |-> button(setUsers(RowLists[i]))]]

InitRows == app = load(<<>>, LoopInit, RowsRoot)
NextRows ==
  \/ Refresh
  \/ \E h \in handlersOf(app.dom) : Click(h)
SpecRows == InitRows /\ [][NextRows]_vars

\* C40: after a refresh that expanded the collection without an error, the
\* rows have as many different SIDs as the collection has items.
C40_RowSidsDiffer ==
  (settled(app) /\ users(app).t = "arr") =>
     Cardinality(keysOfTag(app, "LI")) = Len(users(app).v)

(***************************************************************************)
(* Quiescence: the page of SpecRows, with the refresh microtask run        *)
(* whenever it is queued (the browser runs the microtasks queued by a task *)
(* when the task ends).                                                    *)
(***************************************************************************)
FairRows == InitRows /\ [][NextRows]_vars /\ WF_vars(Refresh)

\* C34: whenever a refresh is pending, the pending flag is false again
\* later, whether or not more events arrive.
C34_PendingEventuallyFalse == app.act.pending ~> ~app.act.pending

(***************************************************************************)
(* The fixpoint of the URL synchronization (under SpecUrl).                *)
(***************************************************************************)
\* the fragment that serializes the keys of @Url included by the <Url> nodes
\* of the document: the persistent part, then the transient part
includedFragment(a) ==
  serialize(picked(resolveNamespace(a, "url"),
                   includeSet(a.dom, "data-url-include")))
  \o serialize(picked(resolveNamespace(a, "url"),
                      includeSet(a.dom, "data-url-includeTransient")))

\* C35: when a change of the fragment or a handler that writes @Url, and the
\* refresh it caused, have ended, the fragment is the serialization of the
\* included keys of the URL namespace.
C35_SyncReachesFixpoint ==
  [][(app.dom # <<>> /\ settled(app')) => app'.location = includedFragment(app')]_vars
====
